---- MODULE Spec2Model ----
(***************************************************************************)
(* Model of the routing-and-supervision core of the repository:            *)
(*   - smart-routing.ts  (classifyTaskType, applySmartRouting)             *)
(*   - token-budget.ts   (getProviderBudget, filterByBudget)               *)
(*   - quality-guard.ts  (createQualityGuardState, checkStreamingChunk,    *)
(*                        checkForStall, checkFinalResponse)               *)
(* JavaScript strings are TLC strings; Len, \o and SubSeq act on them      *)
(* character by character.                                                 *)
(***************************************************************************)
EXTENDS Integers, Sequences, FiniteSets, TLC

VARIABLES
    call,   \* the pure-function call in progress: its name, parameters and result
    state,  \* the QualityGuardState of the attempt in flight
    now,    \* the value Date.now() returns
    last,   \* the last supervisor call on `state` and how it ended
    mem,    \* the objects of a caller of the router, before and after a call
    guards, \* the QualityGuardStates of two attempts in flight at once
    audit,  \* a reply audit handler and what it has logged
    cron    \* the discovery cron: its module state, its timers and its scans

vars == <<call, state, now, last, mem, guards, audit, cron>>

(***************************************************************************)
(* Bounds of the model.                                                    *)
(***************************************************************************)
MaxCandidates == 3
MaxWindows == 2
MaxPromptWords == 3
MaxChunks == 3
MaxCalls == 4
MaxPasses == 4

(***************************************************************************)
(* JavaScript string primitives.                                           *)
(***************************************************************************)
UpperChars == "ABCDEFGHIJKLMNOPQRSTUVWXYZ"
LowerChars == "abcdefghijklmnopqrstuvwxyz"

CharAt(s, i) == SubSeq(s, i, i)

\* The lower-case letter of every upper-case letter.
UpperToLower ==
    [c \in {CharAt(UpperChars, i) : i \in 1..Len(UpperChars)} |->
        CharAt(LowerChars, CHOOSE i \in 1..Len(UpperChars) : CharAt(UpperChars, i) = c)]

toLowerChar(c) == IF c \in DOMAIN UpperToLower THEN UpperToLower[c] ELSE c

\* String.prototype.toLowerCase, half by half.
RECURSIVE toLowerCase(_)
toLowerCase(s) ==
    IF Len(s) = 0 THEN ""
    ELSE IF Len(s) = 1 THEN toLowerChar(s)
    ELSE toLowerCase(SubSeq(s, 1, Len(s) \div 2))
            \o toLowerCase(SubSeq(s, Len(s) \div 2 + 1, Len(s)))

IsWhitespace(c) == c \in {" ", "\t", "\n", "\r"}

\* String.prototype.trim: without the whitespace at both ends.
trimStart(s) ==
    LET n == CHOOSE k \in 0..Len(s) :
                /\ \A i \in 1..k : IsWhitespace(CharAt(s, i))
                /\ k = Len(s) \/ ~IsWhitespace(CharAt(s, k + 1))
    IN  SubSeq(s, n + 1, Len(s))

trimEnd(s) ==
    LET n == CHOOSE k \in 0..Len(s) :
                /\ \A i \in (Len(s) - k + 1)..Len(s) : IsWhitespace(CharAt(s, i))
                /\ k = Len(s) \/ ~IsWhitespace(CharAt(s, Len(s) - k))
    IN  SubSeq(s, 1, Len(s) - n)

trim(s) == trimEnd(trimStart(s))

\* String.prototype.includes
includes(s, frag) ==
    \E i \in 1..(Len(s) - Len(frag) + 1) : SubSeq(s, i, i + Len(frag) - 1) = frag

\* All sequences over S of length at most n.
SeqsUpTo(S, n) == UNION {[1..k -> S] : k \in 0..n}

\* The number of positions of list that hold x.
Count(list, x) == Cardinality({i \in DOMAIN list : list[i] = x})

\* list2 holds the same elements as list1, each as many times.
IsPermutation(list1, list2) ==
    /\ Len(list1) = Len(list2)
    /\ \A i \in DOMAIN list1 : Count(list1, list1[i]) = Count(list2, list1[i])
    /\ \A i \in DOMAIN list2 : Count(list1, list2[i]) = Count(list2, list2[i])

\* The element of a one-element set.  {e(x) : x \in {v}} evaluates v once,
\* where a LET would evaluate it at every use.
Only(S) == CHOOSE x \in S : TRUE

\* `null` for a record-valued parameter.
Null == [null |-> TRUE]

(***************************************************************************)
(* token-budget.ts                                                         *)
(***************************************************************************)
\* usedPercent is a JavaScript number; the model keeps it in tenths of a
\* percent, so that 89.9 is a value of the model.
Pct(p) == p * 10

EXHAUSTION_THRESHOLD == Pct(90)

DEPRIORITIZE_THRESHOLD == Pct(75)

\* The lookup table of mapToUsageProviderId.
mapping ==
    ("anthropic" :> "anthropic") @@
    ("openai-codex" :> "openai-codex") @@
    ("openai" :> "openai-codex") @@
    ("google-antigravity" :> "google-antigravity") @@
    ("google-gemini-cli" :> "google-gemini-cli") @@
    ("google" :> "google-antigravity") @@
    ("github-copilot" :> "github-copilot") @@
    ("minimax" :> "minimax") @@
    ("xiaomi" :> "xiaomi") @@
    ("zai" :> "zai")

\* The `null` mapToUsageProviderId returns: like null, the empty string is
\* falsy and is no usage id.
NullUsageId == ""

\* mapToUsageProviderId without the trim.
mapToUsageProviderIdUntrimmed(provider) ==
    LET normalized == toLowerCase(provider)
    IN  IF normalized \in DOMAIN mapping THEN mapping[normalized] ELSE NullUsageId

mapToUsageProviderId(provider) ==
    LET normalized == trim(toLowerCase(provider))
    IN  IF normalized \in DOMAIN mapping THEN mapping[normalized] ELSE NullUsageId

\* `!usageSummary`: the parameter is absent (undefined) or null.
NoUsageSummary(usageSummary) == usageSummary = Null

defaultStatus(provider) ==
    [provider |-> provider, usedPercent |-> 0, isExhausted |-> FALSE]

\* findSnapshot falling back to the first entry when the usage id has none.
findSnapshotOrFirst(providers, usageId) ==
    IF \E i \in DOMAIN providers : providers[i].provider = usageId
    THEN CHOOSE i \in DOMAIN providers :
            /\ providers[i].provider = usageId
            /\ \A j \in 1..(i - 1) : providers[j].provider # usageId
    ELSE IF Len(providers) > 0 THEN 1 ELSE 0

\* Array.prototype.find on usageSummary.providers: the index of the first
\* entry of the usage id, 0 when there is none.
findSnapshot(providers, usageId) ==
    IF \E i \in DOMAIN providers : providers[i].provider = usageId
    THEN CHOOSE i \in DOMAIN providers :
            /\ providers[i].provider = usageId
            /\ \A j \in 1..(i - 1) : providers[j].provider # usageId
    ELSE 0

\* mostRestrictive keeping the last window instead of the highest.
mostRestrictiveLastWins(windows, i, acc) ==
    IF Len(windows) = 0 THEN acc
    ELSE IF "resetAt" \in DOMAIN windows[Len(windows)]
         THEN [maxUsed |-> windows[Len(windows)].usedPercent,
               resetAt |-> windows[Len(windows)].resetAt]
         ELSE [maxUsed |-> windows[Len(windows)].usedPercent]

\* The loop over snapshot.windows: acc is [maxUsed] with the field resetAt
\* when nearestReset is defined.
RECURSIVE mostRestrictive(_, _, _)
mostRestrictive(windows, i, acc) ==
    IF i > Len(windows) THEN acc
    ELSE LET window == windows[i]
         IN  IF window.usedPercent > acc.maxUsed
             THEN mostRestrictive(windows, i + 1,
                    IF "resetAt" \in DOMAIN window
                    THEN [maxUsed |-> window.usedPercent, resetAt |-> window.resetAt]
                    ELSE [maxUsed |-> window.usedPercent])
             ELSE mostRestrictive(windows, i + 1, acc)

getProviderBudget(provider, usageSummary) ==
    IF NoUsageSummary(usageSummary) THEN defaultStatus(provider)
    ELSE LET usageId == mapToUsageProviderId(provider)
         IN  IF usageId = NullUsageId THEN defaultStatus(provider)
             ELSE LET at == findSnapshot(usageSummary.providers, usageId)
                  IN  IF at = 0 \/ Len(usageSummary.providers[at].windows) = 0
                      THEN defaultStatus(provider)
                      ELSE LET acc == mostRestrictive(usageSummary.providers[at].windows,
                                                      1, [maxUsed |-> 0])
                               status == [provider |-> provider,
                                          usedPercent |-> acc.maxUsed,
                                          isExhausted |-> acc.maxUsed >= EXHAUSTION_THRESHOLD]
                           IN  IF "resetAt" \in DOMAIN acc
                               THEN status @@ [resetAt |-> acc.resetAt]
                               ELSE status

\* bucketOf deprioritizing only above the threshold (> for >=).
bucketOfAboveThreshold(candidate, usageSummary) ==
    LET budget == getProviderBudget(candidate.provider, usageSummary)
    IN  IF budget.isExhausted THEN "exhausted"
        ELSE IF budget.usedPercent > DEPRIORITIZE_THRESHOLD THEN "highUsage"
        ELSE "fresh"

\* The bucket the loop of filterByBudget pushes a candidate to.
bucketOf(candidate, usageSummary) ==
    LET budget == getProviderBudget(candidate.provider, usageSummary)
    IN  IF budget.isExhausted THEN "exhausted"
        ELSE IF budget.usedPercent >= DEPRIORITIZE_THRESHOLD THEN "highUsage"
        ELSE "fresh"

\* filterByBudget returning no candidate at all without a usage snapshot.
filterByBudgetEmptyWithoutUsage(params) ==
    LET candidates == params.candidates
        usageSummary == IF "usageSummary" \in DOMAIN params THEN params.usageSummary
                        ELSE Null
        In(bucket) == SelectSeq(candidates, LAMBDA c : bucketOf(c, usageSummary) = bucket)
    IN  IF usageSummary = Null THEN <<>>
        ELSE IF Len(candidates) <= 1 THEN candidates
        ELSE In("fresh") \o In("highUsage") \o In("exhausted")

\* filterByBudget leaving the exhausted candidates out.
filterByBudgetDroppingExhausted(params) ==
    LET candidates == params.candidates
        usageSummary == IF "usageSummary" \in DOMAIN params THEN params.usageSummary
                        ELSE Null
        IsFresh(c) == bucketOf(c, usageSummary) = "fresh"
        IsHighUsage(c) == bucketOf(c, usageSummary) = "highUsage"
    IN  IF usageSummary = Null \/ Len(candidates) <= 1 THEN candidates
        ELSE SelectSeq(candidates, IsFresh) \o SelectSeq(candidates, IsHighUsage)

\* params is {candidates, usageSummary?}: an absent usageSummary is a record
\* without that field.
usageSummaryOf(params) ==
    IF "usageSummary" \in DOMAIN params THEN params.usageSummary ELSE Null

filterByBudget(params) ==
    LET candidates == params.candidates
        usageSummary == usageSummaryOf(params)
        IsFresh(c) == bucketOf(c, usageSummary) = "fresh"
        IsHighUsage(c) == bucketOf(c, usageSummary) = "highUsage"
        IsExhausted(c) == bucketOf(c, usageSummary) = "exhausted"
    IN  IF NoUsageSummary(usageSummary) \/ Len(candidates) <= 1 THEN candidates
        ELSE SelectSeq(candidates, IsFresh) \o SelectSeq(candidates, IsHighUsage)
                \o SelectSeq(candidates, IsExhausted)

(***************************************************************************)
(* smart-routing.ts: the task classifier.                                  *)
(*                                                                         *)
(* A prompt is cut into tokens: the maximal runs of word characters, the   *)
(* maximal runs of whitespace, and every other character on its own.  A    *)
(* regular expression \b(?:w1|w2)\b matches exactly when some word token   *)
(* is w1 or w2, and a\s+b when the tokens a, whitespace, b follow each     *)
(* other.  A detector is the set of token phrases its expression accepts;  *)
(* in a phrase " " stands for a run of whitespace.  The prompts are ASCII  *)
(* without the backquote (a TLA+ string cannot hold either), so the        *)
(* alternatives that need a non-ASCII character, the mathematical symbols  *)
(* and the fenced code block never match a prompt of the model.            *)
(***************************************************************************)
WordChars == LowerChars \o UpperChars \o "0123456789_"

Digits == "0123456789"

IsWordChar(c) == Len(c) = 1 /\ includes(WordChars, c)

IsDigit(c) == Len(c) = 1 /\ includes(Digits, c)

\* The length of the longest prefix of s made of word characters
\* (word = TRUE) or of whitespace (word = FALSE).
runLength(s, word) ==
    LET In(c) == IF word THEN IsWordChar(c) ELSE IsWhitespace(c)
    IN  CHOOSE n \in 0..Len(s) :
            /\ \A i \in 1..n : In(CharAt(s, i))
            /\ n = Len(s) \/ ~In(CharAt(s, n + 1))

RECURSIVE tokenize(_)
tokenize(s) ==
    IF Len(s) = 0 THEN <<>>
    ELSE LET c == CharAt(s, 1)
             n == IF IsWordChar(c) THEN runLength(s, TRUE)
                  ELSE IF IsWhitespace(c) THEN runLength(s, FALSE)
                  ELSE 1
         IN  <<SubSeq(s, 1, n)>> \o tokenize(SubSeq(s, n + 1, Len(s)))

Words(ws) == {<<w>> : w \in ws}

Phrases(ws, ignoreCase) == [kind |-> "phrases", phrases |-> ws, ignoreCase |-> ignoreCase]

endsWith(s, suffix) ==
    Len(s) >= Len(suffix) /\ SubSeq(s, Len(s) - Len(suffix) + 1, Len(s)) = suffix

Languages ==
    {"polish", "french", "german", "spanish", "italian", "portuguese", "chinese",
     "japanese", "korean", "arabic", "russian", "hindi", "turkish", "dutch", "swedish",
     "czech", "slovak", "hungarian", "romanian", "greek", "thai", "vietnamese",
     "indonesian", "malay", "filipino", "hebrew", "farsi", "persian", "ukrainian",
     "bengali", "tamil", "telugu", "marathi", "gujarati", "kannada", "malayalam",
     "urdu", "swahili"}

CODE_PATTERNS == <<
    Phrases(Words({"function", "class", "const", "let", "var", "import", "export",
                   "return", "async", "await"}), TRUE),
    Phrases(Words({"implement", "refactor", "debug", "bugfix", "compile", "build",
                   "deploy", "lint"}), TRUE),
    Phrases(Words({"api", "endpoint", "database", "schema", "migration", "query",
                   "sql"}), TRUE),
    Phrases(Words({"component", "hook", "state", "props", "render", "dom", "css",
                   "html"}), TRUE),
    Phrases(Words({"test", "spec", "assert", "mock", "stub", "fixture"}), TRUE),
    Phrases(Words({"git", "commit", "merge", "branch", "pullrequest", "pr"})
                \cup {<<"pull", " ", "request">>}, TRUE),
    Phrases(Words({"npm", "pnpm", "yarn", "pip", "cargo", "docker", "kubernetes"}), TRUE),
    Phrases({<<".", e>> : e \in {"ts", "tsx", "js", "jsx", "py", "rs", "go", "java",
                                 "cpp", "c", "rb", "swift", "kt"}}, FALSE),
    [kind |-> "codeBlock"],
    [kind |-> "errorColon"],
    [kind |-> "stackFrame"] >>

REASONING_PATTERNS == <<
    Phrases({<<"explain", " ", w>> : w \in {"why", "how", "what"}}, TRUE),
    Phrases(Words({"analyze", "analyse", "evaluate", "compare", "contrast", "assess"}), TRUE),
    Phrases({<<"think", " ", "through">>, <<"step", " ", "by", " ", "step">>,
             <<"reasoning">>, <<"logic">>}, TRUE),
    Phrases({<<p, " ", a, " ", c>> : p \in {"pro", "pros"}, a \in {"and", "&"},
                                     c \in {"con", "cons"}}
                \cup {<<"tradeoff">>, <<"tradeoffs">>, <<"trade", "-", "off">>,
                      <<"trade", "-", "offs">>}
                \cup {<<p, " ", a, " ", c>> : p \in {"advantage", "advantages"},
                                              a \in {"and", "&"},
                                              c \in {"disadvantage", "disadvantages"}}, TRUE),
    Phrases(Words({"calculate", "equation", "formula", "theorem", "proof", "derive"}), TRUE),
    Phrases(Words({"cause", "effect", "consequence", "implication", "hypothesis"}), TRUE),
    [kind |-> "mathSymbol"],
    Phrases(Words({"sigma", "integral", "derivative", "matrix", "vector"}), TRUE) >>

CreativeForms ==
    {"story", "poem", "haiku", "song", "lyrics", "script", "essay", "letter", "blog"}

CREATIVE_PATTERNS == <<
    Phrases({<<"write", " ", x>> : x \in CreativeForms}
                \cup {<<"write", " ", "a", " ", x>> : x \in CreativeForms}, TRUE),
    Phrases(Words({"creative", "brainstorm", "imagine", "fiction", "narrative",
                   "character"}), TRUE),
    Phrases(Words({"tone", "voice", "style", "mood", "metaphor", "analogy"}), TRUE),
    Phrases({<<v, " ", o>> : v \in {"rewrite", "paraphrase", "rephrase"},
                             o \in {"this", "the", "in"}}, TRUE),
    Phrases(Words({"copywriting", "tagline", "slogan", "headline", "pitch"}), TRUE) >>

TRANSLATION_PATTERNS == <<
    Phrases(Words({"translate", "translation", "translator"}), TRUE),
    Phrases({<<p, " ", l>> : p \in {"in", "to", "into"}, l \in Languages}, TRUE),
    Phrases({<<"po", " ", "polsku">>, <<"na", " ", "polski">>, <<"en", " ", "francais">>,
             <<"auf", " ", "deutsch">>, <<"en", " ", "espanol">>}, TRUE),
    Phrases(Words({"localize", "localization", "i18n", "l10n"}), TRUE) >>

\* One token against one element of a phrase; with ignoreCase the tokens
\* handed in are already lower case.
tokenMatches(token, literal) ==
    IF literal = " " THEN IsWhitespace(CharAt(token, 1)) ELSE token = literal

phraseOccurs(tokens, phrase) ==
    \E k \in 1..(Len(tokens) - Len(phrase) + 1) :
        \A m \in 1..Len(phrase) : tokenMatches(tokens[k + m - 1], phrase[m])

\* /(?:error|exception|traceback|stack\s*trace)\s*:/i
errorColonOccurs(tokens) ==
    \E k \in 1..Len(tokens) :
        LET colonAfter(j) ==
                \/ j + 1 <= Len(tokens) /\ tokens[j + 1] = ":"
                \/ /\ j + 2 <= Len(tokens)
                   /\ IsWhitespace(CharAt(tokens[j + 1], 1))
                   /\ tokens[j + 2] = ":"
        IN  \/ /\ \E w \in {"error", "exception", "traceback", "stacktrace"} :
                    endsWith(tokens[k], w)
               /\ colonAfter(k)
            \/ /\ endsWith(tokens[k], "stack")
               /\ k + 2 <= Len(tokens)
               /\ IsWhitespace(CharAt(tokens[k + 1], 1))
               /\ tokens[k + 2] = "trace"
               /\ colonAfter(k + 2)

\* \s, \S and \d at every position from..to of s.
AllWhitespace(s, from, to) == \A i \in from..to : IsWhitespace(CharAt(s, i))

AllNotSpace(s, from, to) == \A i \in from..to : ~IsWhitespace(CharAt(s, i))

AllDigits(s, from, to) == \A i \in from..to : IsDigit(CharAt(s, i))

\* /\bat\s+\S+\s*\(\S+:\d+:\d+\)/
stackFrameOccurs(prompt) ==
    LET n == Len(prompt)
    IN  \E i \in 1..(n - 1) :
          /\ SubSeq(prompt, i, i + 1) = "at"
          /\ i = 1 \/ ~IsWordChar(CharAt(prompt, i - 1))
          /\ \E a \in (i + 3)..n :        \* the first character of \S+
               /\ AllWhitespace(prompt, i + 2, a - 1)
               /\ \E b \in a..n :         \* the last character of \S+
                    /\ AllNotSpace(prompt, a, b)
                    /\ \E p \in (b + 1)..n :   \* the opening parenthesis
                         /\ AllWhitespace(prompt, b + 1, p - 1)
                         /\ CharAt(prompt, p) = "("
                         /\ \E c1 \in (p + 2)..n, c2 \in (p + 4)..n, q \in (p + 6)..n :
                              /\ c1 < c2 /\ c2 < q
                              /\ AllNotSpace(prompt, p + 1, c1 - 1)
                              /\ CharAt(prompt, c1) = ":"
                              /\ c1 + 1 <= c2 - 1 /\ AllDigits(prompt, c1 + 1, c2 - 1)
                              /\ CharAt(prompt, c2) = ":"
                              /\ c2 + 1 <= q - 1 /\ AllDigits(prompt, c2 + 1, q - 1)
                              /\ CharAt(prompt, q) = ")"

\* The prompt as the detectors read it: its text, its tokens, and its
\* tokens in lower case (for the expressions with the flag i).
Scanned(prompt) ==
    LET tokens == tokenize(prompt)
    IN  [text |-> prompt, tokens |-> tokens,
         lower |-> [k \in DOMAIN tokens |-> toLowerCase(tokens[k])]]

\* pattern.test(prompt), on the scanned prompt.
test(pattern, scanned) ==
    CASE pattern.kind = "phrases" ->
            \E phrase \in pattern.phrases :
                phraseOccurs(IF pattern.ignoreCase THEN scanned.lower ELSE scanned.tokens,
                             phrase)
      [] pattern.kind = "codeBlock" -> FALSE
      [] pattern.kind = "errorColon" -> errorColonOccurs(scanned.lower)
      [] pattern.kind = "stackFrame" -> stackFrameOccurs(scanned.text)
      [] pattern.kind = "mathSymbol" -> FALSE

\* The number of patterns of a list that match: one `scores.x += 1` each.
score(patterns, scanned) ==
    Cardinality({i \in DOMAIN patterns : test(patterns[i], scanned)})

\* Object.entries(scores) without "general": the keys in insertion order.
ScoredTypes == <<"code", "reasoning", "creative", "translation">>

scoresOf(prompt) ==
    Only({[code |-> score(CODE_PATTERNS, scanned),
           reasoning |-> score(REASONING_PATTERNS, scanned),
           creative |-> score(CREATIVE_PATTERNS, scanned),
           translation |-> score(TRANSLATION_PATTERNS, scanned)] :
          scanned \in {Scanned(prompt)}})

\* findBest replacing the best type on an equal score as well (>= for >).
RECURSIVE findBestLastWins(_, _, _, _)
findBestLastWins(scores, i, best, bestScore) ==
    IF i > Len(ScoredTypes) THEN best
    ELSE IF scores[ScoredTypes[i]] >= bestScore
         THEN findBestLastWins(scores, i + 1, ScoredTypes[i], scores[ScoredTypes[i]])
         ELSE findBestLastWins(scores, i + 1, best, bestScore)

\* The loop that keeps the best type: only a strictly greater score replaces it.
RECURSIVE findBest(_, _, _, _)
findBest(scores, i, best, bestScore) ==
    IF i > Len(ScoredTypes) THEN best
    ELSE IF scores[ScoredTypes[i]] > bestScore
         THEN findBest(scores, i + 1, ScoredTypes[i], scores[ScoredTypes[i]])
         ELSE findBest(scores, i + 1, best, bestScore)

\* classifyTaskType with the first category as the best one to start with.
classifyTaskTypeFromCode(args) ==
    IF "prompt" \notin DOMAIN args \/ args.prompt = "" THEN "general"
    ELSE Only({findBest(scores, 1, ScoredTypes[1], 0) : scores \in {scoresOf(args.prompt)}})

\* args is the argument list {prompt?}: a call without a prompt (undefined,
\* null) is a record without that field.
classifyTaskType(args) ==
    IF "prompt" \notin DOMAIN args \/ args.prompt = "" THEN "general"
    ELSE Only({findBest(scores, 1, "general", 0) : scores \in {scoresOf(args.prompt)}})

(***************************************************************************)
(* smart-routing.ts: candidate reordering.                                 *)
(***************************************************************************)
DEFAULT_ROUTING_RULES ==
    [code |-> <<"codex", "deepseek", "qwen", "coder">>,
     reasoning |-> <<"deepseek", "codex", "claude", "r1">>,
     creative |-> <<"claude", "gemini", "llama", "opus">>,
     translation |-> <<"gemini", "qwen", "deepseek", "glm">>,
     general |-> <<>>]

candidateKey(c) == toLowerCase(c.provider \o "/" \o c.model)

\* matchAffinity returning the index of the last fragment the key contains.
matchAffinityLastHit(candidate, fragments) ==
    Only({LET Hit(i) == includes(key, toLowerCase(fragments[i]))
          IN  IF \E i \in DOMAIN fragments : Hit(i)
              THEN (CHOOSE i \in DOMAIN fragments :
                        Hit(i) /\ \A j \in (i + 1)..Len(fragments) : ~Hit(j)) - 1
              ELSE -1 :
          key \in {candidateKey(candidate)}})

\* The index (from 0) of the first fragment the key contains, -1 without one.
matchAffinity(candidate, fragments) ==
    Only({LET Hit(i) == includes(key, toLowerCase(fragments[i]))
          IN  IF \E i \in DOMAIN fragments : Hit(i)
              THEN (CHOOSE i \in DOMAIN fragments :
                        Hit(i) /\ \A j \in 1..(i - 1) : ~Hit(j)) - 1
              ELSE -1 :
          key \in {candidateKey(candidate)}})

\* cfg?.agents?.defaults?.smartRouting, and {enabled: true} without it.
resolveSmartRoutingConfig(params) ==
    IF /\ "cfg" \in DOMAIN params
       /\ "agents" \in DOMAIN params.cfg
       /\ "defaults" \in DOMAIN params.cfg.agents
       /\ "smartRouting" \in DOMAIN params.cfg.agents.defaults
    THEN params.cfg.agents.defaults.smartRouting
    ELSE [enabled |-> TRUE]

\* fragmentsFor without a look at the configured rules.
fragmentsForDefaultRules(routingCfg, taskType) == DEFAULT_ROUTING_RULES[taskType]

\* rules[taskType] ?? DEFAULT_ROUTING_RULES[taskType] ?? []
fragmentsFor(routingCfg, taskType) ==
    LET rules == IF "rules" \in DOMAIN routingCfg THEN routingCfg.rules
                 ELSE DEFAULT_ROUTING_RULES
    IN  IF taskType \in DOMAIN rules THEN rules[taskType]
        ELSE DEFAULT_ROUTING_RULES[taskType]

\* A JavaScript number that is a fragment index or Infinity.
Infinity == [finite |-> FALSE]

Finite(n) == [finite |-> TRUE, n |-> n]

\* affinityIndexOf keeping the -1 of matchAffinity for a candidate without a match.
affinityIndexOfRaw(candidate, fragments) == Finite(matchAffinity(candidate, fragments))

\* The affinityIndex of a scored candidate.
affinityIndexOf(candidate, fragments) ==
    LET affinityIndex == matchAffinity(candidate, fragments)
    IN  IF affinityIndex >= 0 THEN Finite(affinityIndex) ELSE Infinity

\* candidates.map(...): originalIndex counts from 0.
scoreCandidates(candidates, fragments) ==
    [i \in DOMAIN candidates |->
        [candidate |-> candidates[i],
         affinityIndex |-> affinityIndexOf(candidates[i], fragments),
         originalIndex |-> i - 1]]

\* compareScored putting, of two candidates of one affinity index, the later
\* of the input first.
compareScoredLaterFirst(a, b) ==
    IF a.affinityIndex # b.affinityIndex
    THEN IF ~a.affinityIndex.finite THEN 1
         ELSE IF ~b.affinityIndex.finite THEN -1
         ELSE a.affinityIndex.n - b.affinityIndex.n
    ELSE b.originalIndex - a.originalIndex

\* The comparator handed to sort: negative when a goes first.
compareScored(a, b) ==
    IF a.affinityIndex # b.affinityIndex
    THEN IF ~a.affinityIndex.finite THEN 1        \* Infinity - n
         ELSE IF ~b.affinityIndex.finite THEN -1  \* n - Infinity
         ELSE a.affinityIndex.n - b.affinityIndex.n
    ELSE a.originalIndex - b.originalIndex

\* x put into the sorted list: behind every element that does not go after it.
insertScored(sorted, x) ==
    LET k == Cardinality({i \in DOMAIN sorted : compareScored(sorted[i], x) <= 0})
    IN  SubSeq(sorted, 1, k) \o <<x>> \o SubSeq(sorted, k + 1, Len(sorted))

\* Array.prototype.sort with compareScored (a stable insertion sort).
RECURSIVE sortScored(_, _)
sortScored(scored, n) ==
    IF n = 0 THEN <<>> ELSE insertScored(sortScored(scored, n - 1), scored[n])

\* scored.sort(...).map((s) => s.candidate)
sortedCandidates(scored) ==
    Only({[i \in DOMAIN sorted |-> sorted[i].candidate] :
          sorted \in {sortScored(scored, Len(scored))}})

\* routeByTaskType keeping the candidates with a match only.
routeByTaskTypeMatchedOnly(candidates, routingCfg, taskType) ==
    IF taskType = "general" THEN candidates
    ELSE LET fragments == fragmentsFor(routingCfg, taskType)
         IN  IF Len(fragments) = 0 THEN candidates
             ELSE Only({sortedCandidates(SelectSeq(scored, LAMBDA x : x.affinityIndex.finite)) :
                        scored \in {scoreCandidates(candidates, fragments)}})

\* routeByTaskType without the early return for a general task.
routeByTaskTypeSortingGeneral(candidates, routingCfg, taskType) ==
    LET fragments == fragmentsFor(routingCfg, taskType)
    IN  IF Len(fragments) = 0 THEN candidates
        ELSE Only({sortedCandidates(scored) :
                   scored \in {scoreCandidates(candidates, fragments)}})

\* The part of applySmartRouting behind the classification.
routeByTaskType(candidates, routingCfg, taskType) ==
    IF taskType = "general" THEN candidates
    ELSE LET fragments == fragmentsFor(routingCfg, taskType)
         IN  IF Len(fragments) = 0 THEN candidates
             ELSE Only({sortedCandidates(scored) :
                        scored \in {scoreCandidates(candidates, fragments)}})

\* params is {candidates, prompt?, cfg?}.
applySmartRouting(params) ==
    LET candidates == params.candidates
    IN  IF "prompt" \notin DOMAIN params \/ params.prompt = "" \/ Len(candidates) <= 1
        THEN candidates
        ELSE LET routingCfg == resolveSmartRoutingConfig(params)
             IN  IF "enabled" \in DOMAIN routingCfg /\ routingCfg.enabled = FALSE
                 THEN candidates
                 ELSE Only({routeByTaskType(candidates, routingCfg, taskType) :
                            taskType \in {classifyTaskType([prompt |-> params.prompt])}})

\* What await loadProviderUsageSummary() comes to: a summary, or a rejection.
Loaded(usageSummary) == [rejected |-> FALSE, usageSummary |-> usageSummary]

Rejected == [rejected |-> TRUE]

\* How an asynchronous function that returns candidates ends.
Resolved(candidates) == [raised |-> FALSE, candidates |-> candidates]

\* applyBudgetSteering without the catch: the rejection of the load is the
\* rejection of the call.
applyBudgetSteeringUncaught(params, loaded) ==
    IF loaded.rejected THEN [raised |-> TRUE]
    ELSE Resolved(filterByBudget([candidates |-> params.candidates,
                                  usageSummary |-> loaded.usageSummary]))

\* applyBudgetSteering(params) when the load of the usage summary ends as
\* loaded says.
applyBudgetSteering(params, loaded) ==
    IF loaded.rejected THEN Resolved(params.candidates)
    ELSE Resolved(filterByBudget([candidates |-> params.candidates,
                                  usageSummary |-> loaded.usageSummary]))

\* filterByBudget first and applySmartRouting on its result.
filterThenRoute(params) ==
    [routed |-> applySmartRouting([candidates |-> params.candidates,
                                   prompt |-> params.prompt]),
     final |-> applySmartRouting(
                    [candidates |-> filterByBudget([candidates |-> params.candidates,
                                                    usageSummary |-> params.usageSummary]),
                     prompt |-> params.prompt])]

\* The pipeline of the caller: applySmartRouting, then filterByBudget on its
\* result with the usage snapshot of the moment.
routeThenFilter(params) ==
    Only({[routed |-> routed,
           final |-> filterByBudget([candidates |-> routed,
                                     usageSummary |-> params.usageSummary])] :
          routed \in {applySmartRouting([candidates |-> params.candidates,
                                         prompt |-> params.prompt])}})

(***************************************************************************)
(* quality-guard.ts                                                        *)
(***************************************************************************)
\* The null of `firstChunkAt: number | null`: no timestamp is negative.
null == -1

DEFAULT_CONFIG ==
    [enabled |-> TRUE,
     minResponseChars |-> 10,
     stallTimeoutSeconds |-> 30,
     loopThreshold |-> 3,
     loopMinChunkLength |-> 20]

\* { ...DEFAULT_CONFIG, ...config }: config is a record of the fields given,
\* the empty record when the parameter is left out.
mergeConfig(config) ==
    [k \in DOMAIN DEFAULT_CONFIG |->
        IF k \in DOMAIN config THEN config[k] ELSE DEFAULT_CONFIG[k]]

\* A call that returns, and a call that throws a FailoverError.  The message
\* is kept up to its first variable part.
Returned == [raised |-> FALSE]

FailoverError(message, reason) == [raised |-> TRUE, message |-> message, reason |-> reason]

\* createQualityGuardState(), called when Date.now() is t.
createQualityGuardState(t) ==
    [chunks |-> <<>>, totalChars |-> 0, firstChunkAt |-> null, startedAt |-> t]

\* chunks.slice(-k), for k > 0.
sliceLast(chunks, k) ==
    SubSeq(chunks, IF Len(chunks) > k THEN Len(chunks) - k + 1 ELSE 1, Len(chunks))

\* chunks.join("")
RECURSIVE join(_)
join(chunks) == IF Len(chunks) = 0 THEN "" ELSE chunks[1] \o join(Tail(chunks))

\* text.indexOf(segment, pos), positions counted from 0; -1 without a match.
indexOf(text, segment, pos) ==
    Only({IF hits = {} THEN -1 ELSE CHOOSE i \in hits : \A j \in hits : i <= j :
          hits \in {{i \in pos..(Len(text) - Len(segment)) :
                        SubSeq(text, i + 1, i + Len(segment)) = segment}}})

\* The while loop of detectRepetitionRatio: the occurrences counted from pos on.
RECURSIVE countOccurrences(_, _, _, _)
countOccurrences(text, segment, pos, windowSize) ==
    Only({IF found = -1 THEN 0
          ELSE 1 + countOccurrences(text, segment, found + windowSize, windowSize) :
          found \in {indexOf(text, segment, pos)}})

\* The ratio detectRepetitionRatio returns, as the fraction num / den.
detectRepetitionRatio(text) ==
    IF Len(text) < 100 THEN [num |-> 0, den |-> 1]
    ELSE LET windowSize == IF Len(text) \div 4 < 100 THEN Len(text) \div 4 ELSE 100
         IN  Only({IF occurrences <= 1 THEN [num |-> 0, den |-> 1]
                   ELSE [num |-> occurrences * windowSize, den |-> Len(text)] :
                   occurrences \in {countOccurrences(text, SubSeq(text, 1, windowSize),
                                                     0, windowSize)}})

\* countRepeats without the break: every recent chunk that matches counts.
RECURSIVE countRepeatsAnywhere(_, _, _, _, _)
countRepeatsAnywhere(recentChunks, normalized, i, repeatCount, loopThreshold) ==
    IF i >= 1 /\ repeatCount < loopThreshold
    THEN countRepeatsAnywhere(recentChunks, normalized, i - 1,
            IF toLowerCase(trim(recentChunks[i])) = normalized
            THEN repeatCount + 1 ELSE repeatCount,
            loopThreshold)
    ELSE repeatCount

\* The for loop of checkForLooping, from index i (counted from 1) downwards.
RECURSIVE countRepeats(_, _, _, _, _)
countRepeats(recentChunks, normalized, i, repeatCount, loopThreshold) ==
    IF i >= 1 /\ repeatCount < loopThreshold
    THEN IF toLowerCase(trim(recentChunks[i])) = normalized
         THEN countRepeats(recentChunks, normalized, i - 1, repeatCount + 1, loopThreshold)
         ELSE repeatCount
    ELSE repeatCount

\* checkForLooping that starts to look one chunk early: at loopThreshold - 1
\* recorded chunks.
checkForLoopingOneChunkEarly(st, currentChunk, cfg) ==
    LET recentChunks == sliceLast(st.chunks, cfg.loopThreshold * 2)
    IN  IF Len(recentChunks) < cfg.loopThreshold - 1 THEN Returned
        ELSE Only({
            IF repeatCount >= cfg.loopThreshold - 1
            THEN FailoverError("Model output looping detected", "unknown")
            ELSE IF st.totalChars > 500
                 THEN Only({IF ratio.num * 10 > 6 * ratio.den
                            THEN FailoverError("Model output heavily repetitive", "unknown")
                            ELSE Returned :
                            ratio \in {detectRepetitionRatio(join(st.chunks))}})
                 ELSE Returned :
            repeatCount \in {Only({countRepeats(recentChunks, normalized,
                                                Len(recentChunks) - 1, 0, cfg.loopThreshold) :
                                   normalized \in {toLowerCase(trim(currentChunk))}})}})

\* checkForLooping without the early return for a state of fewer than
\* loopThreshold chunks.
checkForLoopingUngated(st, currentChunk, cfg) ==
    LET recentChunks == sliceLast(st.chunks, cfg.loopThreshold * 2)
    IN  Only({
            IF Len(recentChunks) >= cfg.loopThreshold /\ repeatCount >= cfg.loopThreshold - 1
            THEN FailoverError("Model output looping detected", "unknown")
            ELSE IF st.totalChars > 500
                 THEN Only({IF ratio.num * 10 > 6 * ratio.den
                            THEN FailoverError("Model output heavily repetitive", "unknown")
                            ELSE Returned :
                            ratio \in {detectRepetitionRatio(join(st.chunks))}})
                 ELSE Returned :
            repeatCount \in {Only({countRepeats(recentChunks, normalized,
                                                Len(recentChunks) - 1, 0, cfg.loopThreshold) :
                                   normalized \in {toLowerCase(trim(currentChunk))}})}})

\* The provider and model every throw site copies from the context of the
\* call into the error: context?.provider, context?.model.
withContext(outcome, context) ==
    IF outcome.raised
    THEN outcome @@ [k \in DOMAIN context \cap {"provider", "model"} |-> context[k]]
    ELSE outcome

\* The outcome of checkForLooping on the state that already holds the chunk.
checkForLooping(st, currentChunk, cfg) ==
    LET recentChunks == sliceLast(st.chunks, cfg.loopThreshold * 2)
    IN  IF Len(recentChunks) < cfg.loopThreshold THEN Returned
        ELSE Only({
            IF repeatCount >= cfg.loopThreshold - 1
            THEN FailoverError("Model output looping detected", "unknown")
            ELSE IF st.totalChars > 500
                 THEN Only({IF ratio.num * 10 > 6 * ratio.den
                            THEN FailoverError("Model output heavily repetitive", "unknown")
                            ELSE Returned :
                            ratio \in {detectRepetitionRatio(join(st.chunks))}})
                 ELSE Returned :
            repeatCount \in {Only({countRepeats(recentChunks, normalized,
                                                Len(recentChunks) - 1, 0, cfg.loopThreshold) :
                                   normalized \in {toLowerCase(trim(currentChunk))}})}})

\* checkStreamingChunk running the loop detection on every chunk, whatever
\* its length.
checkStreamingChunkAlwaysLooping(st, chunk, config, t) ==
    LET cfg == mergeConfig(config)
        recorded ==
            [st EXCEPT
                !.firstChunkAt = IF (@ = null \/ @ = 0) /\ Len(chunk) > 0 THEN t ELSE @,
                !.chunks = Append(@, chunk),
                !.totalChars = @ + Len(chunk)]
    IN  IF ~cfg.enabled THEN [state |-> st, outcome |-> Returned]
        ELSE [state |-> recorded, outcome |-> checkForLooping(recorded, chunk, cfg)]

\* checkStreamingChunk that never records the time of the first chunk.
checkStreamingChunkUntimed(st, chunk, config, t) ==
    LET cfg == mergeConfig(config)
        recorded == [st EXCEPT !.chunks = Append(@, chunk),
                               !.totalChars = @ + Len(chunk)]
    IN  IF ~cfg.enabled THEN [state |-> st, outcome |-> Returned]
        ELSE [state |-> recorded,
              outcome |-> IF Len(chunk) >= cfg.loopMinChunkLength
                          THEN checkForLooping(recorded, chunk, cfg)
                          ELSE Returned]

\* checkStreamingChunk adding the length of the trimmed chunk to totalChars.
checkStreamingChunkCountingTrimmed(st, chunk, config, t) ==
    LET cfg == mergeConfig(config)
        recorded ==
            [st EXCEPT
                !.firstChunkAt = IF (@ = null \/ @ = 0) /\ Len(chunk) > 0 THEN t ELSE @,
                !.chunks = Append(@, chunk),
                !.totalChars = @ + Len(trim(chunk))]
    IN  IF ~cfg.enabled THEN [state |-> st, outcome |-> Returned]
        ELSE [state |-> recorded,
              outcome |-> IF Len(chunk) >= cfg.loopMinChunkLength
                          THEN checkForLooping(recorded, chunk, cfg)
                          ELSE Returned]

\* checkStreamingChunk recording the chunk before the test of cfg.enabled.
checkStreamingChunkRecordingDisabled(st, chunk, config, t) ==
    LET cfg == mergeConfig(config)
        recorded ==
            [st EXCEPT
                !.firstChunkAt = IF (@ = null \/ @ = 0) /\ Len(chunk) > 0 THEN t ELSE @,
                !.chunks = Append(@, chunk),
                !.totalChars = @ + Len(chunk)]
    IN  IF ~cfg.enabled THEN [state |-> recorded, outcome |-> Returned]
        ELSE [state |-> recorded,
              outcome |-> IF Len(chunk) >= cfg.loopMinChunkLength
                          THEN checkForLooping(recorded, chunk, cfg)
                          ELSE Returned]

\* checkStreamingChunk recording the time of every chunk that is not empty.
checkStreamingChunkRetiming(st, chunk, config, t) ==
    LET cfg == mergeConfig(config)
        recorded ==
            [st EXCEPT
                !.firstChunkAt = IF Len(chunk) > 0 THEN t ELSE @,
                !.chunks = Append(@, chunk),
                !.totalChars = @ + Len(chunk)]
    IN  IF ~cfg.enabled THEN [state |-> st, outcome |-> Returned]
        ELSE [state |-> recorded,
              outcome |-> IF Len(chunk) >= cfg.loopMinChunkLength
                          THEN checkForLooping(recorded, chunk, cfg)
                          ELSE Returned]

\* checkStreamingChunk running the loop detection before it records the
\* chunk: a call that raises leaves the state as it found it.
checkStreamingChunkDetectingFirst(st, chunk, config, t) ==
    LET cfg == mergeConfig(config)
        recorded ==
            [st EXCEPT
                !.firstChunkAt = IF (@ = null \/ @ = 0) /\ Len(chunk) > 0 THEN t ELSE @,
                !.chunks = Append(@, chunk),
                !.totalChars = @ + Len(chunk)]
    IN  IF ~cfg.enabled THEN [state |-> st, outcome |-> Returned]
        ELSE Only({[state |-> IF outcome.raised THEN st ELSE recorded,
                    outcome |-> outcome] :
                   outcome \in {IF Len(chunk) >= cfg.loopMinChunkLength
                                 THEN checkForLooping(recorded, chunk, cfg)
                                 ELSE Returned}})

\* checkStreamingChunk(state, chunk, config) when Date.now() is t: the state
\* it leaves and how it ends.
checkStreamingChunk(st, chunk, config, t) ==
    LET cfg == mergeConfig(config)
        recorded ==
            [st EXCEPT
                !.firstChunkAt = IF (@ = null \/ @ = 0) /\ Len(chunk) > 0 THEN t ELSE @,
                !.chunks = Append(@, chunk),
                !.totalChars = @ + Len(chunk)]
    IN  IF ~cfg.enabled THEN [state |-> st, outcome |-> Returned]
        ELSE [state |-> recorded,
              outcome |-> IF Len(chunk) >= cfg.loopMinChunkLength
                          THEN checkForLooping(recorded, chunk, cfg)
                          ELSE Returned]

\* checkForStall without the test of cfg.enabled.
checkForStallAlwaysOn(st, config, t) ==
    IF t - st.startedAt > mergeConfig(config).stallTimeoutSeconds * 1000
       /\ st.firstChunkAt = null
    THEN FailoverError("Model stalled", "timeout")
    ELSE Returned

\* checkForStall raising at the timeout already (>= for >).
checkForStallAtTimeout(st, config, t) ==
    IF ~mergeConfig(config).enabled THEN Returned
    ELSE IF t - st.startedAt >= mergeConfig(config).stallTimeoutSeconds * 1000
            /\ st.firstChunkAt = null
         THEN FailoverError("Model stalled", "timeout")
         ELSE Returned

\* checkForStall(state, config) when Date.now() is t; elapsed > timeout is
\* compared in milliseconds.
checkForStall(st, config, t) ==
    LET cfg == mergeConfig(config)
        elapsedMs == t - st.startedAt
    IN  IF ~cfg.enabled THEN Returned
        ELSE IF elapsedMs > cfg.stallTimeoutSeconds * 1000 /\ st.firstChunkAt = null
             THEN FailoverError("Model stalled", "timeout")
             ELSE Returned

\* checkFinalResponse raising with the reason of a stall.
checkFinalResponseAsTimeout(st, config) ==
    IF ~mergeConfig(config).enabled THEN Returned
    ELSE IF st.totalChars < mergeConfig(config).minResponseChars
         THEN FailoverError("Model returned insufficient output", "timeout")
         ELSE Returned

\* checkFinalResponse raising at the minimum already (<= for <).
checkFinalResponseAtMinimum(st, config) ==
    IF ~mergeConfig(config).enabled THEN Returned
    ELSE IF st.totalChars <= mergeConfig(config).minResponseChars
         THEN FailoverError("Model returned insufficient output", "unknown")
         ELSE Returned

checkFinalResponse(st, config) ==
    LET cfg == mergeConfig(config)
    IN  IF ~cfg.enabled THEN Returned
        ELSE IF st.totalChars < cfg.minResponseChars
             THEN FailoverError("Model returned insufficient output", "unknown")
             ELSE Returned

(***************************************************************************)
(* reply-audit.ts                                                          *)
(*                                                                         *)
(* The texts of the model are ASCII, so the alternatives of the patterns   *)
(* that need an emoji, a letter outside ASCII or the backquote never match *)
(* and are left out.                                                       *)
(***************************************************************************)
startsWith(s, prefix) == Len(s) >= Len(prefix) /\ SubSeq(s, 1, Len(prefix)) = prefix

\* s without the characters of the class [\s.!] at its end.
stripTail(s) ==
    SubSeq(s, 1, Len(s) - (CHOOSE k \in 0..Len(s) :
        /\ \A i \in (Len(s) - k + 1)..Len(s) :
              IsWhitespace(CharAt(s, i)) \/ CharAt(s, i) \in {".", "!"}
        /\ k = Len(s) \/ ~(IsWhitespace(CharAt(s, Len(s) - k))
                            \/ CharAt(s, Len(s) - k) \in {".", "!"})))

\* s is first, any whitespace (at least `least` characters), second.
spaced(s, first, second, least) ==
    /\ Len(s) >= Len(first) + Len(second) + least
    /\ startsWith(s, first)
    /\ endsWith(s, second)
    /\ AllWhitespace(s, Len(first) + 1, Len(s) - Len(second))

\* The heads of INFORMATIONAL_PATTERNS in front of the tail [\s.!]*, on a
\* text in lower case (the flag i).
InformationalWords ==
    {"ok", "okay", "k", "kk", "sure", "alright", "noted", "roger", "ack", "bet", "copy",
     "yep", "yup", "yea", "yeah",
     "thanks", "thx", "ty", "tysm", "cheers", "ta",
     "yes", "no", "nah", "nope", "maybe", "correct", "right", "exactly", "agreed", "true",
     "false", "indeed",
     "lol", "lmao", "rofl", "xd"}

InformationalPairs == {<<"got", "it">>, <<"thank", "you">>, <<"appreciate", "it">>}

\* ha(ha)+
isLaughter(s) ==
    /\ Len(s) >= 4
    /\ Len(s) % 2 = 0
    /\ \A i \in 1..Len(s) : CharAt(s, i) = IF i % 2 = 1 THEN "h" ELSE "a"

isInformational(lower) ==
    \E head \in {stripTail(lower)} :
        \/ head \in InformationalWords
        \/ \E pair \in InformationalPairs : spaced(head, pair[1], pair[2], 0)
        \/ isLaughter(head)

QuestionStarts ==
    {"what", "who", "where", "when", "why", "how", "which", "is", "are", "do", "does",
     "can", "could", "would", "will", "should", "shall", "did", "has", "have"}

CommandStarts ==
    {"please", "plz", "pls",
     "do", "make", "create", "build", "fix", "write", "implement", "add", "remove",
     "delete", "update", "change", "edit", "show", "list", "find", "search", "check",
     "test", "run", "explain", "describe", "summarize", "translate", "convert", "help",
     "generate", "design", "refactor", "debug", "deploy"}

Greetings ==
    {"hi", "hello", "hey", "yo", "sup", "greetings", "howdy", "hola", "czesc", "siema",
     "witaj"}

DayTimes == {"morning", "afternoon", "evening", "night"}

CodeHints == {"function", "class", "const", "let", "var", "import", "export"}

\* ^(word)\b : the text starts with the word and no word character follows.
startsWithWord(lower, word) ==
    /\ startsWith(lower, word)
    /\ Len(lower) = Len(word) \/ ~IsWordChar(CharAt(lower, Len(word) + 1))

\* ^(tell\s+me)\b
startsWithTellMe(lower) ==
    \E n \in 7..Len(lower) :
        /\ spaced(SubSeq(lower, 1, n), "tell", "me", 1)
        /\ Len(lower) = n \/ ~IsWordChar(CharAt(lower, n + 1))

\* GREETING_RE: a greeting, then one of [\s,.!] or the end of the text.
startsWithGreeting(lower) ==
    \E n \in 1..Len(lower) :
        /\ \/ SubSeq(lower, 1, n) \in Greetings
           \/ \E time \in DayTimes : spaced(SubSeq(lower, 1, n), "good", time, 0)
        /\ \/ Len(lower) = n
           \/ IsWhitespace(CharAt(lower, n + 1))
           \/ CharAt(lower, n + 1) \in {",", ".", "!"}

\* /[.!]\s+[A-Z]/
startsNewSentence(text) ==
    \E i \in 1..Len(text), j \in 1..Len(text) :
        /\ i + 1 < j
        /\ CharAt(text, i) \in {".", "!"}
        /\ AllWhitespace(text, i + 1, j - 1)
        /\ includes(UpperChars, CharAt(text, j))

\* text is the argument of the call: <<>> for undefined, <<t>> for the string t.
classifyReplyIntent(text) ==
    IF text = <<>> \/ text[1] = "" THEN "ambiguous"
    ELSE Only({
            IF trimmed = "" THEN "ambiguous"
            ELSE Only({
                    IF isInformational(lower) THEN "informational"
                    ELSE IF includes(trimmed, "?") THEN "expects_reply"
                    ELSE IF \E word \in QuestionStarts : startsWithWord(lower, word)
                         THEN "expects_reply"
                    ELSE IF startsWithTellMe(lower) THEN "expects_reply"
                    ELSE IF \E word \in CommandStarts : startsWithWord(lower, word)
                         THEN "expects_reply"
                    ELSE IF startsWithGreeting(lower) THEN "expects_reply"
                    ELSE IF \E tokens \in {tokenize(lower)} :
                                \E k \in DOMAIN tokens : tokens[k] \in CodeHints
                         THEN "expects_reply"
                    ELSE IF Len(trimmed) > 80 \/ startsNewSentence(trimmed)
                         THEN "expects_reply"
                    ELSE "ambiguous" :
                    lower \in {toLowerCase(trimmed)}}) :
            trimmed \in {trim(text[1])}})

\* createReplyAuditHandler() when Date.now() is t: the variables of the
\* closure.  skipReason is <<>> while it is undefined.
createReplyAuditHandler(t) ==
    [startedAt |-> t, received |-> FALSE, intent |-> "ambiguous", attempted |-> FALSE,
     delivered |-> FALSE, skipReason |-> <<>>, skippedIntentionally |-> FALSE]

markReceived(h, text) ==
    [h EXCEPT !.received = TRUE, !.intent = classifyReplyIntent(text)]

markReplyAttempted(h) == [h EXCEPT !.attempted = TRUE]

markReplyDelivered(h) == [h EXCEPT !.delivered = TRUE]

\* markSkipped keeping an intentional skip once one was marked.
markSkippedKeepingIntentional(h, reason, opts) ==
    [h EXCEPT !.skipReason = <<reason>>,
              !.skippedIntentionally =
                    @ \/ ("intentional" \in DOMAIN opts /\ opts.intentional = TRUE)]

\* markSkipped keeping the reason of the first skip.
markSkippedKeepingFirstReason(h, reason, opts) ==
    [h EXCEPT !.skipReason = IF @ = <<>> THEN <<reason>> ELSE @,
              !.skippedIntentionally =
                    "intentional" \in DOMAIN opts /\ opts.intentional = TRUE]

\* opts is the record of the fields given, <<>> when it is left out.
markSkipped(h, reason, opts) ==
    [h EXCEPT !.skipReason = <<reason>>,
              !.skippedIntentionally =
                    "intentional" \in DOMAIN opts /\ opts.intentional = TRUE]

\* The lines finalize hands to logVerbose when Date.now() is t: none or one.
\* context is the record of the fields given, <<>> when it is left out.
finalizeLog(h, context, t) ==
    IF h.received /\ h.intent \in {"expects_reply", "ambiguous"}
       /\ ~h.delivered /\ ~h.skippedIntentionally
    THEN <<[line |-> "reply_audit:no_reply",
            detail |-> IF DOMAIN context = {} THEN <<>>
                       ELSE <<[session |-> IF "sessionKey" \in DOMAIN context
                                           THEN context.sessionKey ELSE "?",
                               channel |-> IF "channel" \in DOMAIN context
                                           THEN context.channel ELSE "?"]>>,
            intent |-> h.intent,
            attempted |-> h.attempted,
            skip |-> IF h.skipReason = <<>> THEN "none" ELSE h.skipReason[1],
            elapsedMs |-> t - h.startedAt]>>
    ELSE <<>>

\* The result finalize returns when Date.now() is t.
finalizeResult(h, t) ==
    [inboundReceived |-> h.received, intent |-> h.intent, replyAttempted |-> h.attempted,
     replyDelivered |-> h.delivered, skipReason |-> h.skipReason,
     skippedIntentionally |-> h.skippedIntentionally, elapsedMs |-> t - h.startedAt]

(***************************************************************************)
(* The inputs of the pure functions.                                       *)
(***************************************************************************)
CandidatePool ==
    {[provider |-> "openai-codex", model |-> "gpt-5.3-codex"],
     [provider |-> "google-antigravity", model |-> "gemini-3-flash"],
     [provider |-> "OpenRouter", model |-> "Qwen/Qwen3-Coder:free"],
     [provider |-> "anthropic", model |-> "claude-opus-4-5"],
     [provider |-> " OpenAI ", model |-> "GPT-4"]}

\* A candidate with empty provider and model strings.
BlankCandidate == [provider |-> "", model |-> ""]

\* The lists of one or two candidates that hold the blank candidate, alone
\* or next to a candidate of a metered provider with an affinity.
BlankLists ==
    {list \in SeqsUpTo({BlankCandidate,
                        [provider |-> "openai-codex", model |-> "gpt-5.3-codex"]}, 2) :
        \E i \in DOMAIN list : list[i] = BlankCandidate}

CandidateLists == SeqsUpTo(CandidatePool, MaxCandidates) \cup BlankLists

Vocabulary == {"function", "test", "analyze", "calculate", "creative", "translate"}

RECURSIVE joinWords(_)
joinWords(ws) ==
    IF Len(ws) = 0 THEN ""
    ELSE IF Len(ws) = 1 THEN ws[1]
    ELSE ws[1] \o " " \o joinWords(Tail(ws))

FixedPrompts ==
    {"implement a function that sorts an array",
     "explain how to implement a recursive quicksort function step by step",
     "explain how to implement a recursive quicksort function step by step, with style",
     "write a poem about JavaScript promises and the beauty of async await",
     "ANALYZE the Trade-Offs, then Calculate",
     "Translate this into Polish",
     "hello world",
     "   ",
     " \t\r\n"}

Prompts == {joinWords(ws) : ws \in SeqsUpTo(Vocabulary, MaxPromptWords)} \cup FixedPrompts

ClassifyArgs == {[prompt |-> p] : p \in Prompts} \cup {<<>>}

RoutingPrompts ==
    {"", "hello world", "implement a function that sorts an array",
     "ANALYZE the Trade-Offs, then Calculate", "write a poem in a creative tone",
     "Translate this into Polish"}

SmartRoutingConfigs ==
    {[enabled |-> FALSE],
     [enabled |-> TRUE],
     [rules |-> [code |-> <<"Gemini", "claude">>, creative |-> <<>>,
                 general |-> <<"codex">>]]}

RoutingCfgs ==
    {[agents |-> [defaults |-> <<>>]]}
        \cup {[agents |-> [defaults |-> [smartRouting |-> r]]] : r \in SmartRoutingConfigs}

RoutingParams ==
    {[candidates |-> c] : c \in CandidateLists}
        \cup {[candidates |-> c, prompt |-> p] : c \in CandidateLists, p \in RoutingPrompts}
        \cup {[candidates |-> c, prompt |-> p, cfg |-> g] :
                c \in CandidateLists, p \in RoutingPrompts, g \in RoutingCfgs}

\* The fragment lists matchAffinity is called with: those of the default
\* rules, those of the configured rules, and one in upper case.
AffinityFragments ==
    {DEFAULT_ROUTING_RULES[t] : t \in DOMAIN DEFAULT_ROUTING_RULES}
        \cup {r.rules[t] : t \in {"code", "creative", "general"},
                           r \in {c \in SmartRoutingConfigs : "rules" \in DOMAIN c}}
        \cup {<<"GPT-5", "OPENAI", "/gpt">>}

ResetTimes == {1000, 2000}

Window(p, r) == [usedPercent |-> p, resetAt |-> r]

WindowPool ==
    {Window(0, 1000), Window(Pct(30), 2000), [usedPercent |-> Pct(75)],
     Window(Pct(90) - 1, 1000), Window(Pct(90), 2000), Window(Pct(95), 1000),
     Window(Pct(95), 2000)}

\* The windows a provider has in the snapshots handed to filterByBudget.
UsageProfiles ==
    {<<>>, <<Window(Pct(30), 1000)>>, <<[usedPercent |-> Pct(75)]>>,
     <<Window(Pct(90) - 1, 1000)>>, <<Window(Pct(90), 2000)>>,
     <<Window(Pct(30), 1000), Window(Pct(95), 2000)>>}

Snapshot(id, windows) == [provider |-> id, windows |-> windows]

UsageSummaries ==
    {[providers |-> <<>>]}
        \cup {[providers |-> <<Snapshot(id, ws)>>] :
                id \in {"openai-codex", "anthropic"}, ws \in UsageProfiles}
        \cup {[providers |-> <<Snapshot("openai-codex", w1), Snapshot("anthropic", w2)>>] :
                w1 \in UsageProfiles,
                w2 \in {<<[usedPercent |-> Pct(75)]>>, <<Window(Pct(90), 2000)>>}}

BudgetParams ==
    {[candidates |-> c] : c \in CandidateLists}
        \cup {[candidates |-> c, usageSummary |-> u] :
                c \in CandidateLists, u \in UsageSummaries \cup {Null}}

ProviderNames ==
    {c.provider : c \in CandidatePool} \cup {"openai", "google", "ollama", "Anthropic\n"}

\* The snapshots handed to getProviderBudget: every list of windows, for one
\* provider or behind a first entry of another provider.
WindowLists == SeqsUpTo(WindowPool, MaxWindows)

BudgetSummaries ==
    {[providers |-> <<Snapshot("openai-codex", ws)>>] : ws \in WindowLists}
        \cup {[providers |-> <<Snapshot("openai-codex", <<Window(Pct(95), 1000)>>),
                               Snapshot("anthropic", ws)>>] : ws \in WindowLists}
        \cup {Null}

\* Snapshots that hold two entries for one usage id.
RepeatedSummaries ==
    {[providers |-> <<Snapshot(id, w1), Snapshot("anthropic", <<Window(Pct(30), 1000)>>),
                      Snapshot(id, w2)>>] :
        id \in {"openai-codex", "google-antigravity"},
        w1 \in {<<>>, <<Window(Pct(30), 1000)>>, <<Window(Pct(95), 2000)>>},
        w2 \in {<<Window(Pct(75), 1000)>>, <<Window(Pct(95), 1000)>>}}

\* The prompts and snapshots of the pipeline.
PipelinePrompts ==
    {"implement a function that sorts an array", "Translate this into Polish"}

PipelineSummaries ==
    {[providers |-> <<Snapshot("openai-codex", w1), Snapshot("anthropic", w2)>>] :
        w1 \in {<<Window(Pct(30), 1000)>>, <<Window(Pct(90) - 1, 1000)>>,
                <<Window(Pct(30), 1000), Window(Pct(95), 2000)>>},
        w2 \in {<<[usedPercent |-> Pct(75)]>>, <<Window(Pct(90), 2000)>>}}

PipelineParams ==
    {[candidates |-> c, prompt |-> p, usageSummary |-> u] :
        c \in CandidateLists, p \in PipelinePrompts, u \in PipelineSummaries}

\* The ways the load of the usage summary ends.
Loads == {Rejected, Loaded([providers |-> <<>>])} \cup {Loaded(u) : u \in PipelineSummaries}

(***************************************************************************)
(* The router: one call of a pure function at a time.                      *)
(***************************************************************************)
Idle == [op |-> "idle"]

ClassifyTaskType ==
    /\ call = Idle
    /\ \E args \in ClassifyArgs :
          call' = [op |-> "classifyTaskType", args |-> args,
                   result |-> classifyTaskType(args)]
    /\ UNCHANGED <<state, now, last, mem, guards, audit, cron>>

ApplySmartRouting ==
    /\ call = Idle
    /\ \E params \in RoutingParams :
          call' = [op |-> "applySmartRouting", params |-> params,
                   result |-> applySmartRouting(params)]
    /\ UNCHANGED <<state, now, last, mem, guards, audit, cron>>

GetProviderBudget ==
    /\ call = Idle
    /\ \E provider \in ProviderNames, usageSummary \in BudgetSummaries \cup RepeatedSummaries :
          call' = [op |-> "getProviderBudget", provider |-> provider,
                   usageSummary |-> usageSummary,
                   result |-> getProviderBudget(provider, usageSummary)]
    /\ UNCHANGED <<state, now, last, mem, guards, audit, cron>>

FilterByBudget ==
    /\ call = Idle
    /\ \E params \in BudgetParams :
          call' = [op |-> "filterByBudget", params |-> params,
                   result |-> filterByBudget(params)]
    /\ UNCHANGED <<state, now, last, mem, guards, audit, cron>>

RouteThenFilter ==
    /\ call = Idle
    /\ \E params \in PipelineParams :
          \E r \in {routeThenFilter(params)} :
              call' = [op |-> "routeThenFilter", params |-> params,
                       routed |-> r.routed, result |-> r.final]
    /\ UNCHANGED <<state, now, last, mem, guards, audit, cron>>

ApplyBudgetSteering ==
    /\ call = Idle
    /\ \E candidates \in CandidateLists, loaded \in Loads :
          call' = [op |-> "applyBudgetSteering", params |-> [candidates |-> candidates],
                   loaded |-> loaded,
                   result |-> applyBudgetSteering([candidates |-> candidates], loaded)]
    /\ UNCHANGED <<state, now, last, mem, guards, audit, cron>>

\* One call of matchAffinity from the map of applySmartRouting.
MatchAffinity ==
    /\ call = Idle
    /\ \E candidate \in CandidatePool \cup {BlankCandidate}, fragments \in AffinityFragments :
          call' = [op |-> "matchAffinity", candidate |-> candidate, fragments |-> fragments,
                   result |-> matchAffinity(candidate, fragments)]
    /\ UNCHANGED <<state, now, last, mem, guards, audit, cron>>

\* The prompts and configurations of a call that is repeated on its result.
TwiceRoutingParams ==
    {[candidates |-> c, prompt |-> p] : c \in CandidateLists, p \in PipelinePrompts}
        \cup {[candidates |-> c, prompt |-> p,
                cfg |-> [agents |-> [defaults |-> [smartRouting |->
                            [rules |-> [code |-> <<"Gemini", "claude">>]]]]]] :
                c \in CandidateLists, p \in PipelinePrompts}

\* applySmartRouting, and applySmartRouting again on what it returned, with
\* the prompt and the configuration of the first call.
ApplySmartRoutingTwice ==
    /\ call = Idle
    /\ \E params \in TwiceRoutingParams :
          \E once \in {applySmartRouting(params)} :
              call' = [op |-> "applySmartRoutingTwice", params |-> params, once |-> once,
                       result |-> applySmartRouting([params EXCEPT !.candidates = once])]
    /\ UNCHANGED <<state, now, last, mem, guards, audit, cron>>

\* filterByBudget, and filterByBudget again on what it returned, with the
\* usage snapshot of the first call.
FilterByBudgetTwice ==
    /\ call = Idle
    /\ \E params \in BudgetParams :
          \E once \in {filterByBudget(params)} :
              call' = [op |-> "filterByBudgetTwice", params |-> params, once |-> once,
                       result |-> filterByBudget([params EXCEPT !.candidates = once])]
    /\ UNCHANGED <<state, now, last, mem, guards, audit, cron>>

Return ==
    /\ call # Idle
    /\ call' = Idle
    /\ UNCHANGED <<state, now, last, mem, guards, audit, cron>>

(***************************************************************************)
(* The supervisor of one streamed attempt.                                 *)
(***************************************************************************)
RECURSIVE Repeat(_, _)
Repeat(s, n) == IF n = 0 THEN "" ELSE s \o Repeat(s, n - 1)

ChunkA == "This output repeats."

ChunkAVariant == "  this OUTPUT repeats.\n"

ChunkLong == Repeat("and so on ", 26)

ChunkShort == "ok."

GuardChunks == {"", ChunkShort, ChunkA, ChunkAVariant, ChunkLong}

Disabled == [enabled |-> FALSE]

ChunkConfigs == {<<>>, Disabled, [loopThreshold |-> 2], [loopMinChunkLength |-> 25]}

StallConfigs == {<<>>, Disabled, [stallTimeoutSeconds |-> 5]}

FinalConfigs ==
    {<<>>, Disabled, [minResponseChars |-> 5], [minResponseChars |-> 6]}

\* The context of a check: absent, or the provider and model of the attempt.
Contexts == {<<>>, [provider |-> "openai", model |-> "gpt-4"]}

\* The values Date.now() takes during the attempt.
ClockTimes == {1000, 31000, 31001}

StartTime == CHOOSE t \in ClockTimes : \A u \in ClockTimes : t <= u

CheckStreamingChunk ==
    /\ \E chunk \in GuardChunks, config \in ChunkConfigs :
          /\ Len(state.chunks) < MaxChunks \/ ~mergeConfig(config).enabled
          /\ \E r \in {checkStreamingChunk(state, chunk, config, now)}, context \in Contexts :
                /\ state' = r.state
                /\ last' = [op |-> "checkStreamingChunk", chunk |-> chunk,
                            config |-> config, context |-> context,
                            outcome |-> withContext(r.outcome, context)]
    /\ UNCHANGED <<call, now, mem, guards, audit, cron>>

CheckForStall ==
    /\ \E config \in StallConfigs, context \in Contexts :
          last' = [op |-> "checkForStall", config |-> config, context |-> context,
                   outcome |-> withContext(checkForStall(state, config, now), context)]
    /\ UNCHANGED <<call, state, now, mem, guards, audit, cron>>

CheckFinalResponse ==
    /\ \E config \in FinalConfigs, context \in Contexts :
          last' = [op |-> "checkFinalResponse", config |-> config, context |-> context,
                   outcome |-> withContext(checkFinalResponse(state, config), context)]
    /\ UNCHANGED <<call, state, now, mem, guards, audit, cron>>

\* Time passes between two calls.
Tick ==
    /\ \E t \in ClockTimes : t > now /\ now' = t
    /\ last' = [op |-> "tick"]
    /\ UNCHANGED <<call, state, mem, guards, audit, cron>>

(***************************************************************************)
(* The router on the objects of its caller.                                *)
(*                                                                         *)
(* The heap is a sequence of objects, an address being an index into it.   *)
(* A candidate is an object; a candidate list is an array of addresses of  *)
(* candidates; a usage snapshot is one object.  Array.prototype.map, the   *)
(* spread and an array literal allocate, Array.prototype.sort and push     *)
(* write to the array they are called on.                                  *)
(***************************************************************************)
\* The heap with one more object, and the address of that object.
allocate(heap, object) == [heap |-> Append(heap, object), ref |-> Len(heap) + 1]

\* candidates.map((candidate, originalIndex) => ...) on an array of addresses.
scoreCandidatesOnHeap(heap, candidates, fragments) ==
    [i \in DOMAIN candidates |->
        [candidate |-> candidates[i],
         affinityIndex |-> affinityIndexOf(heap[candidates[i]], fragments),
         originalIndex |-> i - 1]]

\* The array of scored candidates, sorted where it is.
sortInPlace(heap, scored) == [heap EXCEPT ![scored] = sortScored(@, Len(@))]

\* routeOnHeap sorting the array of the caller, where the source sorts the
\* array that map has made.
routeOnHeapSortingInput(heap, ref, fragments) ==
    Only({[heap |-> [heap EXCEPT ![ref] = [i \in DOMAIN sorted |-> sorted[i].candidate]],
           result |-> ref] :
          sorted \in {Only({sortScored(scored, Len(scored)) :
                            scored \in {scoreCandidatesOnHeap(heap, heap[ref], fragments)}})}})

\* The part of applySmartRouting behind the early returns, on the array at
\* address ref: map, sort, map.
routeOnHeap(heap, ref, fragments) ==
    Only({Only({[heap |-> returned.heap, result |-> returned.ref] :
                returned \in {allocate(sorted,
                    [i \in DOMAIN sorted[scored.ref] |-> sorted[scored.ref][i].candidate])}}) :
          scored \in {allocate(heap, scoreCandidatesOnHeap(heap, heap[ref], fragments))},
          sorted \in {sortInPlace(Append(heap, scoreCandidatesOnHeap(heap, heap[ref], fragments)),
                                  Len(heap) + 1)}})

\* applySmartRouting({candidates, prompt?, cfg?}) where candidates is the
\* address of the caller's array: the heap it leaves and the address it
\* returns.
applySmartRoutingOnHeap(heap, params) ==
    IF "prompt" \notin DOMAIN params \/ params.prompt = ""
       \/ Len(heap[params.candidates]) <= 1
    THEN [heap |-> heap, result |-> params.candidates]
    ELSE LET routingCfg == resolveSmartRoutingConfig(params)
         IN  IF "enabled" \in DOMAIN routingCfg /\ routingCfg.enabled = FALSE
             THEN [heap |-> heap, result |-> params.candidates]
             ELSE Only({
                    IF taskType = "general" \/ Len(fragmentsFor(routingCfg, taskType)) = 0
                    THEN [heap |-> heap, result |-> params.candidates]
                    ELSE routeOnHeap(heap, params.candidates,
                                     fragmentsFor(routingCfg, taskType)) :
                    taskType \in {classifyTaskType([prompt |-> params.prompt])}})

\* The addresses of candidates pushed to the array of a bucket.
pushedTo(heap, candidates, usageSummary, bucket) ==
    SelectSeq(candidates, LAMBDA ref : bucketOf(heap[ref], usageSummary) = bucket)

\* The address that is null.
nullRef == 0

\* filterByBudget({candidates, usageSummary?}) where candidates and
\* usageSummary are addresses, usageSummary absent or nullRef for none.
filterByBudgetOnHeap(heap, params) ==
    LET candidates == heap[params.candidates]
        usageSummary == IF "usageSummary" \notin DOMAIN params
                           \/ params.usageSummary = nullRef
                        THEN Null
                        ELSE heap[params.usageSummary]
        fresh == allocate(heap, pushedTo(heap, candidates, usageSummary, "fresh"))
        highUsage == allocate(fresh.heap,
                              pushedTo(heap, candidates, usageSummary, "highUsage"))
        exhausted == allocate(highUsage.heap,
                              pushedTo(heap, candidates, usageSummary, "exhausted"))
        returned == allocate(exhausted.heap,
                             exhausted.heap[fresh.ref] \o exhausted.heap[highUsage.ref]
                                \o exhausted.heap[exhausted.ref])
    IN  IF NoUsageSummary(usageSummary) \/ Len(candidates) <= 1
        THEN [heap |-> heap, result |-> params.candidates]
        ELSE [heap |-> returned.heap, result |-> returned.ref]

\* No call in progress and no object of a caller.
NoObjects == [op |-> "idle", heap |-> <<>>]

\* The heap of a caller that holds the candidates of list one by one, then
\* the array of their addresses, then the usage snapshot (Null for none).
CallerHeap(list, usageSummary) ==
    list \o <<[i \in DOMAIN list |-> i], usageSummary>>

HeapPrompts == {"hello world", "implement a function that sorts an array"}

\* The caller hands its array to applySmartRouting.
ApplySmartRoutingOnHeap ==
    /\ mem = NoObjects
    /\ \E list \in CandidateLists, prompt \in HeapPrompts :
          \E heap \in {CallerHeap(list, Null)} :
             \E params \in {[candidates |-> Len(list) + 1, prompt |-> prompt]} :
                \E r \in {applySmartRoutingOnHeap(heap, params)} :
                   mem' = [op |-> "applySmartRouting", before |-> heap, params |-> params,
                           heap |-> r.heap, result |-> r.result]
    /\ UNCHANGED <<call, state, now, last, guards, audit, cron>>

\* The caller hands its array and its snapshot to filterByBudget.
FilterByBudgetOnHeap ==
    /\ mem = NoObjects
    /\ \E list \in CandidateLists, usageSummary \in PipelineSummaries \cup {Null} :
          \E heap \in {CallerHeap(list, usageSummary)} :
             \E params \in {[candidates |-> Len(list) + 1,
                             usageSummary |-> IF usageSummary = Null THEN nullRef
                                              ELSE Len(list) + 2]} :
                \E r \in {filterByBudgetOnHeap(heap, params)} :
                   mem' = [op |-> "filterByBudget", before |-> heap, params |-> params,
                           heap |-> r.heap, result |-> r.result]
    /\ UNCHANGED <<call, state, now, last, guards, audit, cron>>

\* The caller drops its objects.
Release ==
    /\ mem # NoObjects
    /\ mem' = NoObjects
    /\ UNCHANGED <<call, state, now, last, guards, audit, cron>>

HeapNext ==
    \/ ApplySmartRoutingOnHeap
    \/ FilterByBudgetOnHeap
    \/ Release

(***************************************************************************)
(* Two attempts in flight, each with the state it has created.  A state is *)
(* an object on the heap and its chunks an array of its own: push writes   *)
(* to the array, the assignments write to the object.                      *)
(***************************************************************************)
Attempts == {1, 2}

\* createQualityGuardState handing every state the array of the first one.
createQualityGuardStateSharingChunks(heap, t) ==
    Only({allocate(chunks.heap,
                   [chunks |-> 1, totalChars |-> 0, firstChunkAt |-> null,
                    startedAt |-> t]) :
          chunks \in {IF Len(heap) = 0 THEN allocate(heap, <<>>)
                      ELSE [heap |-> heap, ref |-> 1]}})

\* createQualityGuardState() when Date.now() is t: the array literal, then
\* the object literal.
createQualityGuardStateOnHeap(heap, t) ==
    Only({allocate(chunks.heap,
                   [chunks |-> chunks.ref, totalChars |-> 0, firstChunkAt |-> null,
                    startedAt |-> t]) :
          chunks \in {allocate(heap, <<>>)}})

\* The QualityGuardState at address ref, its chunks read from their array.
stateAt(heap, ref) == [heap[ref] EXCEPT !.chunks = heap[@]]

\* checkStreamingChunk on the state at address ref.
checkStreamingChunkOnHeap(heap, ref, chunk, config, t) ==
    Only({[heap |-> [heap EXCEPT ![heap[ref].chunks] = r.state.chunks,
                                 ![ref] = [@ EXCEPT !.totalChars = r.state.totalChars,
                                                    !.firstChunkAt = r.state.firstChunkAt]],
           outcome |-> r.outcome] :
          r \in {checkStreamingChunk(stateAt(heap, ref), chunk, config, t)}})

\* No state created yet.  alone[a] is the state attempt a would hold had
\* only its own operations been executed.
NoAttempts ==
    [heap |-> <<>>,
     refs |-> [a \in Attempts |-> nullRef],
     alone |-> [a \in Attempts |-> Null],
     last |-> [op |-> "none"]]

AttemptChunks == {ChunkShort, ChunkA}

AttemptConfigs == {<<>>, [stallTimeoutSeconds |-> 5]}

CreateQualityGuardState ==
    /\ \E a \in Attempts :
          /\ guards.refs[a] = nullRef
          /\ \E created \in {createQualityGuardStateOnHeap(guards.heap, now)} :
                guards' = [heap |-> created.heap,
                           refs |-> [guards.refs EXCEPT ![a] = created.ref],
                           alone |-> [guards.alone EXCEPT ![a] = createQualityGuardState(now)],
                           last |-> [op |-> "createQualityGuardState", attempt |-> a]]
    /\ UNCHANGED <<call, state, now, last, mem, audit, cron>>

CheckStreamingChunkOf ==
    /\ \E a \in Attempts, chunk \in AttemptChunks, config \in AttemptConfigs :
          /\ guards.refs[a] # nullRef
          /\ Len(guards.alone[a].chunks) < MaxChunks
          /\ \E r \in {checkStreamingChunkOnHeap(guards.heap, guards.refs[a], chunk,
                                                 config, now)},
                own \in {checkStreamingChunk(guards.alone[a], chunk, config, now)} :
                guards' = [guards EXCEPT
                              !.heap = r.heap,
                              !.alone[a] = own.state,
                              !.last = [op |-> "checkStreamingChunk", attempt |-> a,
                                        outcome |-> r.outcome, alone |-> own.outcome]]
    /\ UNCHANGED <<call, state, now, last, mem, audit, cron>>

CheckForStallOf ==
    /\ \E a \in Attempts, config \in AttemptConfigs :
          /\ guards.refs[a] # nullRef
          /\ guards' = [guards EXCEPT
                          !.last = [op |-> "checkForStall", attempt |-> a,
                                    outcome |-> checkForStall(
                                        stateAt(guards.heap, guards.refs[a]), config, now),
                                    alone |-> checkForStall(guards.alone[a], config, now)]]
    /\ UNCHANGED <<call, state, now, last, mem, audit, cron>>

CheckFinalResponseOf ==
    /\ \E a \in Attempts, config \in AttemptConfigs :
          /\ guards.refs[a] # nullRef
          /\ guards' = [guards EXCEPT
                          !.last = [op |-> "checkFinalResponse", attempt |-> a,
                                    outcome |-> checkFinalResponse(
                                        stateAt(guards.heap, guards.refs[a]), config),
                                    alone |-> checkFinalResponse(guards.alone[a], config)]]
    /\ UNCHANGED <<call, state, now, last, mem, audit, cron>>

AttemptsNext ==
    \/ CreateQualityGuardState
    \/ CheckStreamingChunkOf
    \/ CheckForStallOf
    \/ CheckFinalResponseOf
    \/ Tick

(***************************************************************************)
(* One reply audit handler and its caller.  calls is the list of the calls *)
(* made on the handler so far, log the lines handed to logVerbose.         *)
(***************************************************************************)
NewAudit ==
    [handler |-> createReplyAuditHandler(StartTime), calls |-> <<>>, log |-> <<>>]

InboundTexts == {<<>>, <<"ok">>, <<"mongoose">>, <<"please fix this">>}

Skips ==
    {[reason |-> "duplicate", opts |-> [intentional |-> TRUE]],
     [reason |-> "duplicate", opts |-> [intentional |-> FALSE]],
     [reason |-> "dispatcher:silent", opts |-> <<>>]}

FinalizeContexts == {<<>>, [sessionKey |-> "s", channel |-> "telegram"]}

MarkReceived ==
    /\ Len(audit.calls) < MaxCalls
    /\ \E text \in InboundTexts :
          audit' = [audit EXCEPT
                      !.handler = markReceived(@, text),
                      !.calls = Append(@, [op |-> "markReceived", text |-> text])]
    /\ UNCHANGED <<call, state, now, last, mem, guards, cron>>

MarkReplyAttempted ==
    /\ Len(audit.calls) < MaxCalls
    /\ audit' = [audit EXCEPT !.handler = markReplyAttempted(@),
                              !.calls = Append(@, [op |-> "markReplyAttempted"])]
    /\ UNCHANGED <<call, state, now, last, mem, guards, cron>>

MarkReplyDelivered ==
    /\ Len(audit.calls) < MaxCalls
    /\ audit' = [audit EXCEPT !.handler = markReplyDelivered(@),
                              !.calls = Append(@, [op |-> "markReplyDelivered"])]
    /\ UNCHANGED <<call, state, now, last, mem, guards, cron>>

MarkSkipped ==
    /\ Len(audit.calls) < MaxCalls
    /\ \E skip \in Skips :
          audit' = [audit EXCEPT
                      !.handler = markSkipped(@, skip.reason, skip.opts),
                      !.calls = Append(@, [op |-> "markSkipped", reason |-> skip.reason,
                                           opts |-> skip.opts])]
    /\ UNCHANGED <<call, state, now, last, mem, guards, cron>>

Finalize ==
    /\ Len(audit.calls) < MaxCalls
    /\ \E context \in FinalizeContexts :
          \E lines \in {finalizeLog(audit.handler, context, now)} :
             audit' = [audit EXCEPT
                          !.log = @ \o lines,
                          !.calls = Append(@, [op |-> "finalize", context |-> context,
                                               logged |-> lines,
                                               result |-> finalizeResult(audit.handler, now)])]
    /\ UNCHANGED <<call, state, now, last, mem, guards, cron>>

AuditNext ==
    \/ MarkReceived
    \/ MarkReplyAttempted
    \/ MarkReplyDelivered
    \/ MarkSkipped
    \/ Finalize

(***************************************************************************)
(* The discovery cron (model-discovery-cron.ts) with the part of           *)
(* model-discovery.ts it rests on: the persisted lastScanAt, which         *)
(* syncFreeModels writes when a scan ends.                                 *)
(*                                                                         *)
(* JavaScript runs a function up to its first await without interruption:  *)
(* a call of runDiscoveryCycle tests isRunning, tests whether a scan is    *)
(* due, sets isRunning and starts syncFreeModels in one step; what follows *)
(* the await is a second step, taken when the scan ends.                   *)
(***************************************************************************)
HourMs == 60 * 60 * 1000

\* options.intervalHours ?? 24
intervalHoursOf(options) ==
    IF "intervalHours" \in DOMAIN options THEN options.intervalHours ELSE 24

\* c is the state of the module, of the timers and of the discovery file.
isDiscoveryScanDue(c, intervalHours) ==
    IF c.lastScanAt = 0 THEN TRUE
    ELSE c.clock - c.lastScanAt >= intervalHours * HourMs

\* runDiscoveryCycle without the test of isDiscoveryScanDue.
runDiscoveryCycleWhetherDueOrNot(c, options) ==
    IF c.isRunning THEN c
    ELSE [c EXCEPT !.isRunning = TRUE,
                   !.scans = Append(@, [options |-> options, startedAt |-> c.clock])]

\* runDiscoveryCycle without the test of isRunning.
runDiscoveryCycleUnguarded(c, options) ==
    IF ~isDiscoveryScanDue(c, intervalHoursOf(options)) THEN c
    ELSE [c EXCEPT !.isRunning = TRUE,
                   !.scans = Append(@, [options |-> options, startedAt |-> c.clock])]

\* runDiscoveryCycle(options) up to its await: a scan in flight more, or none.
runDiscoveryCycle(c, options) ==
    IF c.isRunning THEN c
    ELSE IF ~isDiscoveryScanDue(c, intervalHoursOf(options)) THEN c
    ELSE [c EXCEPT !.isRunning = TRUE,
                   !.scans = Append(@, [options |-> options, startedAt |-> c.clock])]

stopDiscoveryCron(c) ==
    IF c.cronTimer # null
    THEN [c EXCEPT !.timers = {timer \in @ : timer.handle # c.cronTimer},
                   !.cronTimer = null]
    ELSE c

\* The handle setInterval returns: one that no active timer has.
freeHandle(c) ==
    CHOOSE handle \in 1..(Cardinality(c.timers) + 1) :
        \A timer \in c.timers : timer.handle # handle

\* startDiscoveryCron without the call of stopDiscoveryCron.
startDiscoveryCronWithoutStop(c, options) ==
    Only({[cycled EXCEPT
              !.timers = @ \cup {[handle |-> freeHandle(cycled), options |-> options,
                                  due |-> cycled.clock + intervalHoursOf(options) * HourMs]},
              !.cronTimer = freeHandle(cycled)] :
          cycled \in {runDiscoveryCycle(c, options)}})

startDiscoveryCron(c, options) ==
    Only({[cycled EXCEPT
              !.timers = @ \cup {[handle |-> freeHandle(cycled), options |-> options,
                                  due |-> cycled.clock + intervalHoursOf(options) * HourMs]},
              !.cronTimer = freeHandle(cycled)] :
          cycled \in {runDiscoveryCycle(stopDiscoveryCron(c), options)}})

\* The scan at position i ends: syncFreeModels persists lastScanAt = Date.now()
\* and returns, and the finally of runDiscoveryCycle clears isRunning.
scanSucceeded(c, i) ==
    [c EXCEPT !.lastScanAt = c.clock,
              !.scans = SubSeq(@, 1, i - 1) \o SubSeq(@, i + 1, Len(@)),
              !.isRunning = FALSE]

\* scanFailed without the finally: the flag stays set.
scanFailedKeepingFlag(c, i) ==
    [c EXCEPT !.scans = SubSeq(@, 1, i - 1) \o SubSeq(@, i + 1, Len(@))]

\* The scan at position i throws before it persists anything: the catch
\* reports the error and the finally clears isRunning.
scanFailed(c, i) ==
    [c EXCEPT !.scans = SubSeq(@, 1, i - 1) \o SubSeq(@, i + 1, Len(@)),
              !.isRunning = FALSE]

\* The process has loaded the module and no scan was ever persisted.
\* passes counts the advances of the clock, scanStartedAt is the time the
\* last scan started (null before the first), event the last step taken.
CronLoaded ==
    [cronTimer |-> null, isRunning |-> FALSE, lastScanAt |-> 0, clock |-> StartTime,
     timers |-> {}, scans |-> <<>>, passes |-> 0, scanStartedAt |-> null,
     event |-> [op |-> "load"]]

CronOptions == {<<>>, [intervalHours |-> 1]}

\* The lengths of time that pass between two steps.
Quanta == {HourMs \div 2, 12 * HourMs}

\* What a step that calls runDiscoveryCycle leaves behind: the state after
\* it, the time of the scan it started, and the event.
cycleStep(before, after, event) ==
    [after EXCEPT
        !.scanStartedAt = IF Len(after.scans) > Len(before.scans) THEN before.clock ELSE @,
        !.event = event @@ [scanned |-> Len(after.scans) > Len(before.scans),
                            busy |-> before.isRunning,
                            inFlight |-> Len(before.scans),
                            lastScanAt |-> before.lastScanAt,
                            timers |-> Cardinality(before.timers),
                            due |-> isDiscoveryScanDue(before, intervalHoursOf(event.options)),
                            idleSince |-> before.scanStartedAt]]

StartDiscoveryCron ==
    /\ \E options \in CronOptions :
          cron' = cycleStep(cron, startDiscoveryCron(cron, options),
                            [op |-> "startDiscoveryCron", options |-> options])
    /\ UNCHANGED <<call, state, now, last, mem, guards, audit>>

StopDiscoveryCron ==
    /\ cron' = [stopDiscoveryCron(cron) EXCEPT
                    !.event = [op |-> "stopDiscoveryCron",
                               timers |-> Cardinality(cron.timers)]]
    /\ UNCHANGED <<call, state, now, last, mem, guards, audit>>

\* A direct call of the exported runDiscoveryCycle.
RunDiscoveryCycle ==
    /\ \E options \in CronOptions :
          cron' = cycleStep(cron, runDiscoveryCycle(cron, options),
                            [op |-> "runDiscoveryCycle", options |-> options])
    /\ UNCHANGED <<call, state, now, last, mem, guards, audit>>

\* An interval timer is due: its callback calls runDiscoveryCycle, and the
\* timer is due again one interval later.
TimerFires ==
    /\ \E timer \in cron.timers :
          /\ timer.due = cron.clock
          /\ \E rearmed \in {[cron EXCEPT !.timers = (@ \ {timer}) \cup
                                {[timer EXCEPT !.due = @ + intervalHoursOf(timer.options)
                                                            * HourMs]}]} :
                cron' = cycleStep(cron, runDiscoveryCycle(rearmed, timer.options),
                                  [op |-> "timer", options |-> timer.options,
                                   handle |-> timer.handle])
    /\ UNCHANGED <<call, state, now, last, mem, guards, audit>>

ScanSucceeds ==
    /\ \E i \in DOMAIN cron.scans :
          cron' = [scanSucceeded(cron, i) EXCEPT
                      !.event = [op |-> "scanSucceeded", took |-> cron.clock
                                                            - cron.scans[i].startedAt]]
    /\ UNCHANGED <<call, state, now, last, mem, guards, audit>>

ScanFails ==
    /\ \E i \in DOMAIN cron.scans :
          cron' = [scanFailed(cron, i) EXCEPT
                      !.event = [op |-> "scanFailed", onProgress |-> "error",
                                 lastScanAt |-> cron.lastScanAt]]
    /\ UNCHANGED <<call, state, now, last, mem, guards, audit>>

\* Time passes, up to the moment the next timer is due.
Pass ==
    /\ cron.passes < MaxPasses
    /\ \E quantum \in Quanta :
          /\ \A timer \in cron.timers : cron.clock + quantum <= timer.due
          /\ cron' = [cron EXCEPT !.clock = @ + quantum, !.passes = @ + 1,
                                  !.event = [op |-> "pass"]]
    /\ UNCHANGED <<call, state, now, last, mem, guards, audit>>

CronNext ==
    \/ StartDiscoveryCron
    \/ StopDiscoveryCron
    \/ RunDiscoveryCycle
    \/ TimerFires
    \/ ScanSucceeds
    \/ ScanFails
    \/ Pass

Init ==
    /\ call = Idle
    /\ now = StartTime
    /\ state = createQualityGuardState(StartTime)
    /\ last = [op |-> "createQualityGuardState"]
    /\ mem = NoObjects
    /\ guards = NoAttempts
    /\ audit = NewAudit
    /\ cron = CronLoaded

RouterNext ==
    \/ ClassifyTaskType
    \/ ApplySmartRouting
    \/ GetProviderBudget
    \/ FilterByBudget
    \/ RouteThenFilter
    \/ MatchAffinity
    \/ ApplyBudgetSteering
    \/ Return

RouterSpec == Init /\ [][RouterNext]_vars

TwiceNext ==
    \/ ApplySmartRoutingTwice
    \/ FilterByBudgetTwice
    \/ Return

TwiceSpec == Init /\ [][TwiceNext]_vars


HeapSpec == Init /\ [][HeapNext]_vars

AttemptsSpec == Init /\ [][AttemptsNext]_vars

AuditSpec == Init /\ [][AuditNext]_vars

CronSpec == Init /\ [][CronNext]_vars

\* The promise a cycle awaits is settled in the end: the scan returns or throws.
CronFairSpec == CronSpec /\ WF_vars(ScanSucceeds \/ ScanFails)

GuardNext ==
    \/ CheckStreamingChunk
    \/ CheckForStall
    \/ CheckFinalResponse
    \/ Tick

GuardSpec == Init /\ [][GuardNext]_vars

(***************************************************************************)
(* Properties of the router (RouterSpec).                                  *)
(***************************************************************************)
Reordering == call.op \in {"applySmartRouting", "filterByBudget"}

\* C1: applySmartRouting and filterByBudget return a permutation of the list
\* they are given, for every candidate list, prompt, configuration and usage
\* snapshot: the same length and the same multiset of candidates, none
\* dropped and none duplicated, also when every provider is exhausted.
C1_Permutation ==
    Reordering =>
        /\ Len(call.result) = Len(call.params.candidates)
        /\ IsPermutation(call.params.candidates, call.result)

\* filterByBudget has moved candidates of a list that holds one candidate
\* twice and an exhausted provider.
C1_Witness ==
    /\ call.op = "filterByBudget"
    /\ call.result # call.params.candidates
    /\ \E i, j \in DOMAIN call.params.candidates :
          i # j /\ call.params.candidates[i] = call.params.candidates[j]
    /\ \E i \in DOMAIN call.params.candidates :
          bucketOf(call.params.candidates[i], usageSummaryOf(call.params)) = "exhausted"

\* The task type of every prompt handed to applySmartRouting.
TaskTypeOf == [p \in RoutingPrompts \ {""} |-> classifyTaskType([prompt |-> p])]

\* The fragments applySmartRouting sorts by, <<>> when it returns its input
\* untouched (no prompt, a single candidate, routing disabled, a general task).
SortFragments(params) ==
    IF "prompt" \notin DOMAIN params \/ params.prompt = "" \/ Len(params.candidates) <= 1
    THEN <<>>
    ELSE LET routingCfg == resolveSmartRoutingConfig(params)
             taskType == TaskTypeOf[params.prompt]
         IN  IF "enabled" \in DOMAIN routingCfg /\ routingCfg.enabled = FALSE THEN <<>>
             ELSE IF taskType = "general" THEN <<>>
             ELSE fragmentsFor(routingCfg, taskType)

RECURSIVE ByAffinity(_, _, _)
\* The candidates of index i, then those of index i + 1, ..., then those
\* without a match, each group in the order of the input.
ByAffinity(candidates, fragments, i) ==
    IF i >= Len(fragments)
    THEN SelectSeq(candidates, LAMBDA c : matchAffinity(c, fragments) = -1)
    ELSE SelectSeq(candidates, LAMBDA c : matchAffinity(c, fragments) = i)
            \o ByAffinity(candidates, fragments, i + 1)

\* C2: when applySmartRouting reorders (routing enabled, a task that is not
\* general, at least two candidates, a fragment list that is not empty), its
\* output is its input stably sorted by (affinity index, original position),
\* a candidate without a match counting as larger than every index: matched
\* before unmatched, lower index before higher, and the candidates of one
\* index, like the unmatched ones, in their original relative order.
C2_StableAffinitySort ==
    call.op = "applySmartRouting" =>
        \A fragments \in {SortFragments(call.params)} :
            Len(fragments) > 0 =>
                call.result = ByAffinity(call.params.candidates, fragments, 0)

\* A reordering call whose input has an unmatched candidate in front of a
\* matched one and two candidates of different indexes in the wrong order.
C2_Witness ==
    /\ call.op = "applySmartRouting"
    /\ \E fragments \in {SortFragments(call.params)}, candidates \in {call.params.candidates} :
           /\ Len(fragments) > 0
           /\ \E i, j \in DOMAIN candidates :
                 /\ i < j
                 /\ matchAffinity(candidates[i], fragments) = -1
                 /\ matchAffinity(candidates[j], fragments) >= 0
           /\ \E i, j \in DOMAIN candidates :
                 /\ i < j
                 /\ matchAffinity(candidates[j], fragments) >= 0
                 /\ matchAffinity(candidates[i], fragments)
                        > matchAffinity(candidates[j], fragments)
    /\ call.result # call.params.candidates

\* usedPercent (in tenths) of the provider of a candidate.
UsedPercent(c, usageSummary) == getProviderBudget(c.provider, usageSummary).usedPercent

Partitioning ==
    /\ call.op = "filterByBudget"
    /\ usageSummaryOf(call.params) # Null
    /\ Len(call.params.candidates) >= 2

WindowsOf(usageSummary, usageId) ==
    IF \E i \in DOMAIN usageSummary.providers :
            usageSummary.providers[i].provider = usageId
    THEN usageSummary.providers[
            CHOOSE i \in DOMAIN usageSummary.providers :
                /\ usageSummary.providers[i].provider = usageId
                /\ \A j \in 1..(i - 1) : usageSummary.providers[j].provider # usageId
         ].windows
    ELSE <<>>

\* The provider has no usage on record: no canonical usage id, no entry of
\* that id in the snapshot, or an entry without windows.
Unmetered(provider, usageSummary) ==
    \/ mapToUsageProviderId(provider) = NullUsageId
    \/ Len(WindowsOf(usageSummary, mapToUsageProviderId(provider))) = 0

MaxOf(S) == CHOOSE m \in S : \A x \in S : x <= m

C5_UnmeteredIsFresh ==
    /\ (/\ call.op = "getProviderBudget"
        /\ call.usageSummary # Null
        /\ Unmetered(call.provider, call.usageSummary)) =>
            /\ call.result.usedPercent = 0
            /\ call.result.isExhausted = FALSE
    /\ Partitioning =>
            \A i, j \in DOMAIN call.result :
                (/\ Unmetered(call.result[j].provider, call.params.usageSummary)
                 /\ UsedPercent(call.result[i], call.params.usageSummary) >= Pct(75))
                    => j < i

\* filterByBudget has moved a candidate of a provider without usage on record
\* from behind an exhausted candidate to the front, in a snapshot that has an
\* exhausted entry first.
C5_Witness ==
    /\ Partitioning
    /\ LET u == call.params.usageSummary
           candidates == call.params.candidates
       IN  /\ Len(u.providers) > 0
           /\ Len(u.providers[1].windows) > 0
           /\ UsedPercent(candidates[1], u) >= Pct(90)
           /\ Unmetered(candidates[Len(candidates)].provider, u)
           /\ call.result[1] = candidates[Len(candidates)]
           /\ call.result[Len(candidates)] = candidates[1]

Earlier(t, u) ==
    \E i, j \in DOMAIN ScoredTypes : i < j /\ ScoredTypes[i] = t /\ ScoredTypes[j] = u

\* t has a match and no type has more matches, nor an earlier type as many.
Wins(t, scores) ==
    /\ scores[t] > 0
    /\ \A u \in DOMAIN scores : scores[u] <= scores[t]
    /\ \A u \in DOMAIN scores : Earlier(u, t) => scores[u] < scores[t]

\* C6: classifyTaskType returns the category with the strictly highest count
\* of matching detectors among code, reasoning, creative and translation,
\* scanned in that order, so that the earlier category wins a tie; a category
\* of score 0 never wins, and the result is general when all four are 0.
C6_HighestScoreWins ==
    (call.op = "classifyTaskType" /\ "prompt" \in DOMAIN call.args) =>
        \A scores \in {scoresOf(call.args.prompt)} :
            /\ (\A t \in DOMAIN scores : scores[t] = 0) => call.result = "general"
            /\ \A t \in DOMAIN scores : Wins(t, scores) => call.result = t
            /\ \A t \in DOMAIN scores : scores[t] = 0 => call.result # t

\* A prompt with as many matches for a later category as for the winner,
\* while a third category has matches too, but fewer.
C6_Witness ==
    /\ call.op = "classifyTaskType"
    /\ "prompt" \in DOMAIN call.args
    /\ \E scores \in {scoresOf(call.args.prompt)} :
           \E t, u, v \in DOMAIN scores :
              /\ call.result = t
              /\ Earlier(t, u)
              /\ scores[u] = scores[t]
              /\ scores[v] > 0
              /\ scores[v] < scores[t]

(***************************************************************************)
(* Properties of the supervisor (GuardSpec).                               *)
(***************************************************************************)
Checked == last.op \in {"checkStreamingChunk", "checkForStall", "checkFinalResponse"}

\* The time since the attempt started, in milliseconds.
Elapsed == now - state.startedAt

\* stallTimeoutSeconds of a call, in milliseconds.
StallTimeout(config) ==
    IF "stallTimeoutSeconds" \in DOMAIN config THEN config.stallTimeoutSeconds * 1000
    ELSE 30000

EnabledIn(config) == "enabled" \notin DOMAIN config \/ config.enabled

\* C7: with the quality guard disabled (enabled = false) none of
\* checkStreamingChunk, checkForStall and checkFinalResponse ever raises, in
\* every state (one past the stall timeout without output included) and for
\* every input (any number of identical long chunks included).
C7_DisabledNeverRaises ==
    (Checked /\ ~EnabledIn(last.config)) => ~last.outcome.raised

\* checkForStall of a disabled guard, past the stall timeout, in a state
\* without any output.
C7_Witness ==
    /\ last.op = "checkForStall"
    /\ ~EnabledIn(last.config)
    /\ state.firstChunkAt = null
    /\ Len(state.chunks) = 0
    /\ Elapsed > 30000
    /\ ~last.outcome.raised

\* C8: with the guard enabled checkForStall raises a failover of reason
\* timeout if and only if no first chunk has been recorded (firstChunkAt is
\* null) and the time since startedAt exceeds stallTimeoutSeconds (30
\* without a configured value); it does not raise before the timeout, at
\* exactly the timeout, or when firstChunkAt is set.
C8_StallIffNoChunkPastTimeout ==
    (last.op = "checkForStall" /\ EnabledIn(last.config)) =>
        /\ last.outcome.raised <=>
                (state.firstChunkAt = null /\ Elapsed > StallTimeout(last.config))
        /\ last.outcome.raised => last.outcome.reason = "timeout"

\* checkForStall with the configuration of the defaults, one millisecond past
\* 30 seconds, without a first chunk: raised.
C8_Witness ==
    /\ last.op = "checkForStall"
    /\ last.config = <<>>
    /\ state.firstChunkAt = null
    /\ Elapsed = 30001
    /\ last.outcome.raised
    /\ last.outcome.reason = "timeout"

\* checkForStall has raised.
Stalled == last.op = "checkForStall" /\ last.outcome.raised

\* The original statement of C9: once any chunk has been ingested into the
\* state by checkStreamingChunk, checkForStall never raises for that state.
C9_NoStallAfterAnyChunk == Len(state.chunks) > 0 => ~Stalled

\* C9: once a chunk that is not empty has been ingested into the state by
\* checkStreamingChunk, checkForStall never raises again for that state,
\* however much time passes and whatever the later chunks are; an empty chunk
\* is recorded without ending the wait for the first output.
C9_NoStallAfterOutput ==
    (\E i \in DOMAIN state.chunks : Len(state.chunks[i]) > 0) => ~Stalled

\* checkForStall of an enabled guard past the timeout, after a chunk of three
\* characters and an empty one: not raised.
C9_Witness ==
    /\ last.op = "checkForStall"
    /\ EnabledIn(last.config)
    /\ Elapsed > StallTimeout(last.config)
    /\ \E i \in DOMAIN state.chunks : Len(state.chunks[i]) > 0
    /\ \E i \in DOMAIN state.chunks : Len(state.chunks[i]) = 0
    /\ ~last.outcome.raised

\* The text two chunks are compared by: trimmed and case-folded.
Normalized(chunk) == toLowerCase(trim(chunk))

\* The number of chunks at the end of the list that are, normalized, the last one.
TrailingRun(chunks) ==
    CHOOSE n \in 1..Len(chunks) :
        /\ \A i \in (Len(chunks) - n + 1)..Len(chunks) :
              Normalized(chunks[i]) = Normalized(chunks[Len(chunks)])
        /\ \/ n = Len(chunks)
           \/ Normalized(chunks[Len(chunks) - n]) # Normalized(chunks[Len(chunks)])

LoopThreshold(config) ==
    IF "loopThreshold" \in DOMAIN config THEN config.loopThreshold ELSE 3

LoopMinChunkLength(config) ==
    IF "loopMinChunkLength" \in DOMAIN config THEN config.loopMinChunkLength ELSE 20

\* An enabled checkStreamingChunk has ingested a chunk of at least
\* loopMinChunkLength characters.
IngestedLong ==
    /\ last.op = "checkStreamingChunk"
    /\ EnabledIn(last.config)
    /\ Len(last.chunk) >= LoopMinChunkLength(last.config)

Looping == last.outcome.raised /\ last.outcome.message = "Model output looping detected"

\* C10: consecutive chunks whose trimmed, case-folded text is identical, each
\* of at least loopMinChunkLength characters, fed to checkStreamingChunk from
\* a fresh state raise a failover of reason unknown exactly on the ingest at
\* which the run of consecutive identical chunks reaches loopThreshold (3
\* without a configured value) and on no earlier ingest; only consecutive
\* repeats count, so a chunk that differs restarts the run.
C10_LoopAtThreshold ==
    IngestedLong =>
        \A run \in {TrailingRun(state.chunks)} :
            /\ run >= LoopThreshold(last.config) =>
                    Looping /\ last.outcome.reason = "unknown"
            /\ run < LoopThreshold(last.config) => ~Looping
            /\ (run = Len(state.chunks) /\ run < LoopThreshold(last.config)) =>
                    ~last.outcome.raised

\* The third of three chunks that differ in case and surrounding whitespace
\* only, under the configuration of the defaults: raised.
C10_Witness ==
    /\ IngestedLong
    /\ last.config = <<>>
    /\ Len(state.chunks) = 3
    /\ TrailingRun(state.chunks) = 3
    /\ \E i, j \in DOMAIN state.chunks : state.chunks[i] # state.chunks[j]
    /\ Looping
    /\ last.outcome.reason = "unknown"

Repetitive ==
    last.outcome.raised /\ last.outcome.message = "Model output heavily repetitive"

\* The recurrences of the leading segment cover more than 0.6 of the text.
HeavilyRepeated(text) ==
    \E ratio \in {detectRepetitionRatio(text)} : ratio.num * 10 > 6 * ratio.den

\* The original statement of C11: whenever an ingested chunk meets the
\* minimum chunk length and the accumulated text exceeds 500 characters,
\* checkStreamingChunk raises a failover of reason unknown if the recurrences
\* of the leading segment cover more than 0.6 of the text, and raises nothing
\* for heavy repetition otherwise.
C11_RepetitionAlwaysChecked ==
    (IngestedLong /\ Len(join(state.chunks)) > 500) =>
        IF HeavilyRepeated(join(state.chunks))
        THEN last.outcome.raised /\ last.outcome.reason = "unknown"
        ELSE ~Repetitive

\* C11: the heavy-repetition failover (reason unknown) is raised by
\* checkStreamingChunk exactly when the ingested chunk meets the minimum chunk
\* length, the state holds at least loopThreshold chunks, the exact-repeat
\* check has not raised (the run of identical chunks is below loopThreshold),
\* the accumulated text exceeds 500 characters and the non-overlapping
\* recurrences of its leading segment cover more than 0.6 of it; with fewer
\* than loopThreshold chunks in the state the text is not examined.
C11_RepetitionBehindLoopCheck ==
    (last.op = "checkStreamingChunk" /\ EnabledIn(last.config)) =>
        /\ Repetitive <=>
                /\ IngestedLong
                /\ Len(state.chunks) >= LoopThreshold(last.config)
                /\ TrailingRun(state.chunks) < LoopThreshold(last.config)
                /\ Len(join(state.chunks)) > 500
                /\ HeavilyRepeated(join(state.chunks))
        /\ Repetitive => last.outcome.reason = "unknown"

\* The third chunk of a state whose text of more than 500 characters is
\* heavily repeated while its last two chunks differ: raised.
C11_Witness ==
    /\ IngestedLong
    /\ Len(state.chunks) = 3
    /\ TrailingRun(state.chunks) = 1
    /\ state.totalChars > 500
    /\ Repetitive
    /\ last.outcome.reason = "unknown"

MinResponseChars(config) ==
    IF "minResponseChars" \in DOMAIN config THEN config.minResponseChars ELSE 10

\* C12: with the guard enabled checkFinalResponse raises a failover of reason
\* unknown if and only if state.totalChars is strictly below minResponseChars
\* (10 without a configured value): an empty response raises, totalChars = 3
\* under a minimum of 5 raises, totalChars equal to the minimum does not.
C12_InsufficientIffBelowMinimum ==
    (last.op = "checkFinalResponse" /\ EnabledIn(last.config)) =>
        /\ last.outcome.raised <=> state.totalChars < MinResponseChars(last.config)
        /\ last.outcome.raised => last.outcome.reason = "unknown"
        /\ (state.totalChars = 0 /\ MinResponseChars(last.config) > 0)
                => last.outcome.raised
        /\ state.totalChars = MinResponseChars(last.config) => ~last.outcome.raised

\* checkFinalResponse of a state of three characters under a minimum of 5:
\* raised.
C12_Witness ==
    /\ last.op = "checkFinalResponse"
    /\ "minResponseChars" \in DOMAIN last.config
    /\ last.config.minResponseChars = 5
    /\ state.totalChars = 3
    /\ last.outcome.raised
    /\ last.outcome.reason = "unknown"

RECURSIVE SumOfLengths(_)
SumOfLengths(chunks) ==
    IF Len(chunks) = 0 THEN 0 ELSE Len(chunks[1]) + SumOfLengths(Tail(chunks))

\* C13: after any sequence of supervisor operations on a state created by
\* createQualityGuardState, state.totalChars equals the sum of the lengths of
\* all chunks ingested into that state through checkStreamingChunk: every
\* chunk an enabled checkStreamingChunk takes is appended to state.chunks,
\* also when the call raises, and totalChars is the sum of their lengths.
C13_TotalCharsIsSumOfChunks ==
    /\ state.totalChars = SumOfLengths(state.chunks)
    /\ (last.op = "checkStreamingChunk" /\ EnabledIn(last.config)) =>
            /\ Len(state.chunks) > 0
            /\ state.chunks[Len(state.chunks)] = last.chunk

\* Three chunks, one of them empty and one with surrounding whitespace, the
\* third of which raised.
C13_Witness ==
    /\ last.op = "checkStreamingChunk"
    /\ last.outcome.raised
    /\ Len(state.chunks) = 3
    /\ \E i \in DOMAIN state.chunks : state.chunks[i] = ""
    /\ \E i \in DOMAIN state.chunks : state.chunks[i] = ChunkAVariant
    /\ state.totalChars = SumOfLengths(state.chunks)
    /\ state.totalChars > Len(ChunkAVariant)

(***************************************************************************)
(* Further properties of the router (RouterSpec).                          *)
(***************************************************************************)
NoPrompt(params) == "prompt" \notin DOMAIN params \/ params.prompt = ""

RoutingDisabled(params) ==
    \E routingCfg \in {resolveSmartRoutingConfig(params)} :
        "enabled" \in DOMAIN routingCfg /\ routingCfg.enabled = FALSE

\* One of the cases in which applySmartRouting has nothing to reorder.
NothingToRoute(params) ==
    \/ NoPrompt(params)
    \/ Len(params.candidates) < 2
    \/ RoutingDisabled(params)
    \/ TaskTypeOf[params.prompt] = "general"
    \/ fragmentsFor(resolveSmartRoutingConfig(params), TaskTypeOf[params.prompt]) = <<>>

\* C14: applySmartRouting returns the candidates in their input order when
\* the prompt classifies as general (also when the configured affinity table
\* gives general a fragment list that is not empty), when there are fewer
\* than two candidates, when routing is disabled by configuration, when the
\* prompt is absent or empty, or when the fragment list of the task is empty.
C14_RoutingNoOp ==
    (call.op = "applySmartRouting" /\ NothingToRoute(call.params)) =>
        call.result = call.params.candidates

\* A general prompt under rules that give general the fragment codex, with a
\* codex candidate behind another one: the order is kept.
C14_Witness ==
    /\ call.op = "applySmartRouting"
    /\ ~NoPrompt(call.params)
    /\ ~RoutingDisabled(call.params)
    /\ TaskTypeOf[call.params.prompt] = "general"
    /\ Len(fragmentsFor(resolveSmartRoutingConfig(call.params), "general")) > 0
    /\ Len(call.params.candidates) >= 2
    /\ matchAffinity(call.params.candidates[1],
                     fragmentsFor(resolveSmartRoutingConfig(call.params), "general")) = -1
    /\ matchAffinity(call.params.candidates[2],
                     fragmentsFor(resolveSmartRoutingConfig(call.params), "general")) = 0
    /\ call.result = call.params.candidates

\* C15: filterByBudget returns the candidates in their input order when the
\* usage snapshot is absent or null, or when there are fewer than two
\* candidates (the empty list included), whatever the snapshot contains.
C15_BudgetNoOp ==
    (/\ call.op = "filterByBudget"
     /\ \/ usageSummaryOf(call.params) = Null
        \/ Len(call.params.candidates) < 2) =>
        call.result = call.params.candidates

\* A call without a usage snapshot for several candidates, a metered provider
\* behind an unmetered one among them.
C15_Witness ==
    /\ call.op = "filterByBudget"
    /\ "usageSummary" \notin DOMAIN call.params
    /\ Len(call.params.candidates) >= 2
    /\ mapToUsageProviderId(call.params.candidates[1].provider) # NullUsageId
    /\ mapToUsageProviderId(call.params.candidates[2].provider) = NullUsageId
    /\ call.result = call.params.candidates

\* C16: classifyTaskType returns general for an empty prompt, an absent one
\* (null or undefined) and one of whitespace only.
C16_BlankPromptIsGeneral ==
    (/\ call.op = "classifyTaskType"
     /\ \/ "prompt" \notin DOMAIN call.args
        \/ \A i \in 1..Len(call.args.prompt) : IsWhitespace(CharAt(call.args.prompt, i)))
        => call.result = "general"

\* A prompt of a blank, a tab, a carriage return and a line feed.
C16_Witness ==
    /\ call.op = "classifyTaskType"
    /\ "prompt" \in DOMAIN call.args
    /\ Len(call.args.prompt) = 4
    /\ \A i \in 1..4 : IsWhitespace(CharAt(call.args.prompt, i))
    /\ \E i \in 1..4 : CharAt(call.args.prompt, i) = "\n"
    /\ call.result = "general"

TaskTypes == {"code", "reasoning", "creative", "translation", "general"}

Carries(field) ==
    IF field \in DOMAIN last.context
    THEN field \in DOMAIN last.outcome /\ last.outcome[field] = last.context[field]
    ELSE field \notin DOMAIN last.outcome

\* C19: every failover the quality guard raises has the reason timeout when
\* checkForStall raises it and the reason unknown when checkStreamingChunk
\* (loop or heavy repetition) or checkFinalResponse (insufficient output)
\* raises it, never context_overflow, rate_limit or auth, and it carries
\* exactly the provider and model of the context handed to the check.
C19_ReasonAndContext ==
    (Checked /\ last.outcome.raised) =>
        /\ last.op = "checkForStall" => last.outcome.reason = "timeout"
        /\ last.op \in {"checkStreamingChunk", "checkFinalResponse"} =>
                last.outcome.reason = "unknown"
        /\ last.outcome.reason \notin {"context_overflow", "rate_limit", "auth"}
        /\ Carries("provider")
        /\ Carries("model")

\* checkFinalResponse has raised for insufficient output with the provider
\* and model of its context.
C19_Witness ==
    /\ last.op = "checkFinalResponse"
    /\ last.outcome.raised
    /\ last.outcome.reason = "unknown"
    /\ "provider" \in DOMAIN last.context
    /\ last.outcome.provider = "openai"
    /\ last.outcome.model = "gpt-4"
    /\ state.totalChars > 0

(***************************************************************************)
(* The pipeline (RouterSpec).                                              *)
(***************************************************************************)
\* C20: in the pipeline applySmartRouting, then filterByBudget on its result,
\* the budget order dominates the affinity order: every fresh candidate
\* stands before every high-usage one and every high-usage one before every
\* exhausted one, whatever their affinity rank (a candidate of an exhausted
\* provider that affinity promoted ends at the tail), and inside each budget
\* bucket the candidates keep the relative order affinity routing produced.
C20_BudgetDominatesAffinity ==
    call.op = "routeThenFilter" =>
        \A u \in {call.params.usageSummary}, fragments \in {SortFragments(call.params)} :
            /\ call.routed = IF Len(fragments) > 0
                             THEN ByAffinity(call.params.candidates, fragments, 0)
                             ELSE call.params.candidates
            /\ \A i, j \in DOMAIN call.result :
                  i < j =>
                    \/ UsedPercent(call.result[j], u) >= Pct(90)
                    \/ UsedPercent(call.result[i], u) < Pct(75)
                    \/ /\ UsedPercent(call.result[i], u) < Pct(90)
                       /\ UsedPercent(call.result[j], u) >= Pct(75)
            /\ call.result =
                    SelectSeq(call.routed, LAMBDA c : UsedPercent(c, u) < Pct(75))
                        \o SelectSeq(call.routed, LAMBDA c :
                                Pct(75) <= UsedPercent(c, u) /\ UsedPercent(c, u) < Pct(90))
                        \o SelectSeq(call.routed, LAMBDA c : UsedPercent(c, u) >= Pct(90))

\* Affinity has promoted a candidate of an exhausted provider from the last
\* place to the first, and the budget filter has put it at the tail, behind
\* a high-usage candidate and a fresh one.
C20_Witness ==
    /\ call.op = "routeThenFilter"
    /\ Len(call.params.candidates) = 3
    /\ call.routed[1] = call.params.candidates[3]
    /\ call.result[3] = call.routed[1]
    /\ \E u \in {call.params.usageSummary} :
          /\ UsedPercent(call.result[3], u) >= Pct(90)
          /\ UsedPercent(call.result[2], u) >= Pct(75)
          /\ UsedPercent(call.result[2], u) < Pct(90)
          /\ UsedPercent(call.result[1], u) < Pct(75)

(***************************************************************************)
(* The reset time of a budget status (RouterSpec).                         *)
(***************************************************************************)
\* The provider has at least one usage window in the snapshot.
Metered ==
    /\ call.op = "getProviderBudget"
    /\ call.usageSummary # Null
    /\ ~Unmetered(call.provider, call.usageSummary)

\* The status reports the reset time of window: the same resetAt, or none
\* when the window has none.
ReportsResetOf(status, window) ==
    IF "resetAt" \in DOMAIN window
    THEN "resetAt" \in DOMAIN status /\ status.resetAt = window.resetAt
    ELSE "resetAt" \notin DOMAIN status

\* C21: for every provider with at least one usage window, the resetAt of
\* its budget status is the reset time of the most restrictive window, a
\* window whose usedPercent is the reported maximum.
C21_ResetOfMostRestrictiveWindow ==
    Metered =>
        \A windows \in {WindowsOf(call.usageSummary, mapToUsageProviderId(call.provider))} :
            \E i \in DOMAIN windows :
                /\ windows[i].usedPercent = call.result.usedPercent
                /\ ReportsResetOf(call.result, windows[i])

(***************************************************************************)
(* Short chunks (GuardSpec).                                               *)
(***************************************************************************)
\* C22: checkStreamingChunk never raises for a chunk shorter than
\* loopMinChunkLength (20 without a configured value), however many times
\* that chunk is repeated and whatever the state already holds.
C22_ShortChunkNeverRaises ==
    (/\ last.op = "checkStreamingChunk"
     /\ Len(last.chunk) < LoopMinChunkLength(last.config)) =>
        ~last.outcome.raised

\* An enabled ingest of a chunk of 20 characters under loopMinChunkLength 25,
\* which ends a run of loopThreshold identical chunks, has returned.
C22_Witness ==
    /\ last.op = "checkStreamingChunk"
    /\ EnabledIn(last.config)
    /\ Len(last.chunk) >= 20
    /\ Len(last.chunk) < LoopMinChunkLength(last.config)
    /\ TrailingRun(state.chunks) >= LoopThreshold(last.config)
    /\ ~last.outcome.raised

(***************************************************************************)
(* The objects of the caller (HeapSpec).                                   *)
(***************************************************************************)
\* C23: applySmartRouting and filterByBudget never write to an object of
\* their caller: after the call the caller's array holds the same candidates
\* in the same order, no candidate's provider or model has changed and the
\* usage snapshot is unchanged; an order that differs from the input is
\* returned in an array the call has allocated.
C23_InputsNotMutated ==
    mem.op # "idle" =>
        /\ \A address \in DOMAIN mem.before : mem.heap[address] = mem.before[address]
        /\ mem.heap[mem.result] # mem.before[mem.params.candidates] =>
                mem.result \notin DOMAIN mem.before

\* applySmartRouting has returned an order that differs from its input.
C23_Witness ==
    /\ mem.op = "applySmartRouting"
    /\ mem.heap[mem.result] # mem.before[mem.params.candidates]
    /\ Len(mem.heap[mem.result]) = Len(mem.before[mem.params.candidates])

(***************************************************************************)
(* Two attempts at once (AttemptsSpec).                                    *)
(***************************************************************************)
Created(a) == guards.refs[a] # nullRef

\* C24: every state createQualityGuardState returns is fresh (no chunks,
\* totalChars 0, firstChunkAt null) and independent of every other state:
\* under every interleaving of supervisor operations on two states, each
\* state is what the operations on it alone have made it, and a check on it
\* ends as it would have ended without the operations on the other state.
C24_StatesAreIndependent ==
    /\ \A a \in Attempts :
          Created(a) => stateAt(guards.heap, guards.refs[a]) = guards.alone[a]
    /\ guards.last.op = "createQualityGuardState" =>
          \A fresh \in {stateAt(guards.heap, guards.refs[guards.last.attempt])} :
              fresh.chunks = <<>> /\ fresh.totalChars = 0 /\ fresh.firstChunkAt = null
    /\ guards.last.op \in {"checkStreamingChunk", "checkForStall", "checkFinalResponse"} =>
          guards.last.outcome = guards.last.alone

\* checkForStall has raised on one state while the other state, created at
\* the same time, holds output.
C24_Witness ==
    /\ guards.last.op = "checkForStall"
    /\ guards.last.outcome.raised
    /\ \E b \in Attempts \ {guards.last.attempt} :
          /\ Created(b)
          /\ guards.alone[b].firstChunkAt # null
          /\ guards.alone[b].chunks # <<>>
          /\ guards.alone[b].startedAt = guards.alone[guards.last.attempt].startedAt

(***************************************************************************)
(* The reply audit (AuditSpec).                                            *)
(***************************************************************************)
\* The calls of an operation among the first n calls on the handler.
CallsOf(op, n) == {i \in 1..n : audit.calls[i].op = op}

\* The last call of an operation among the first n calls.
LastOf(op, n) == audit.calls[MaxOf(CallsOf(op, n))]

\* Before call n + 1: a message was received, the intent of the one received
\* last is expects_reply or ambiguous, no reply was delivered, and the skip
\* marked last, if any, was not marked intentional.
ReplyMissing(n) ==
    /\ CallsOf("markReceived", n) # {}
    /\ classifyReplyIntent(LastOf("markReceived", n).text) \in {"expects_reply", "ambiguous"}
    /\ CallsOf("markReplyDelivered", n) = {}
    /\ \/ CallsOf("markSkipped", n) = {}
       \/ \E opts \in {LastOf("markSkipped", n).opts} :
             ~("intentional" \in DOMAIN opts /\ opts.intentional = TRUE)

\* C25: for every sequence of markReceived, markReplyAttempted,
\* markReplyDelivered and markSkipped calls on a reply audit handler, finalize
\* hands logVerbose one reply_audit:no_reply line if and only if a message
\* was received, its intent is expects_reply or ambiguous, no reply was
\* delivered and the skip was not marked intentional; it logs nothing for a
\* delivered reply, an informational message or an intentional skip.
C25_WarnsIffReplyMissing ==
    \A n \in DOMAIN audit.calls :
        audit.calls[n].op = "finalize" =>
            /\ audit.calls[n].logged # <<>> <=> ReplyMissing(n - 1)
            /\ Len(audit.calls[n].logged) <= 1
            /\ \A i \in DOMAIN audit.calls[n].logged :
                  audit.calls[n].logged[i].line = "reply_audit:no_reply"

\* finalize has warned after a message that expects a reply, and a second
\* finalize, after the reply was delivered, has logged nothing.
C25_Witness ==
    /\ Len(audit.calls) = 4
    /\ audit.calls[1].op = "markReceived" /\ audit.calls[1].text = <<"please fix this">>
    /\ audit.calls[2].op = "finalize" /\ audit.calls[2].logged # <<>>
    /\ audit.calls[3].op = "markReplyDelivered"
    /\ audit.calls[4].op = "finalize" /\ audit.calls[4].logged = <<>>
    /\ Len(audit.log) = 1

(***************************************************************************)
(* C26: startDiscoveryCron starts a discovery cycle at once, which scans   *)
(* exactly when a scan is due and none is running, and from then on the    *)
(* scan repeats at the configured interval: a firing of the interval timer *)
(* that finds no scan running, one interval or more after the last scan    *)
(* started, starts a scan.                                                 *)
(***************************************************************************)
IntervalSinceLastScan ==
    \/ cron.event.idleSince = null
    \/ cron.clock - cron.event.idleSince >= intervalHoursOf(cron.event.options) * HourMs

C26_ScanRepeatsEveryInterval ==
    /\ cron.event.op = "startDiscoveryCron"
          => (cron.event.scanned <=> (cron.event.due /\ ~cron.event.busy))
    /\ (cron.event.op = "timer" /\ ~cron.event.busy /\ IntervalSinceLastScan)
          => cron.event.scanned


(***************************************************************************)
(* C28: at most one scan started by runDiscoveryCycle is in flight at any  *)
(* time, whatever the order of timer firings, restarts through             *)
(* startDiscoveryCron and direct calls of runDiscoveryCycle; a call that   *)
(* arrives while a scan is in flight starts none.                          *)
(***************************************************************************)
CycleCalls == {"startDiscoveryCron", "runDiscoveryCycle", "timer"}

C28_AtMostOneScanInFlight ==
    /\ Len(cron.scans) <= 1
    /\ (cron.event.op \in CycleCalls /\ cron.event.inFlight > 0) => ~cron.event.scanned

\* The timer fires while a scan is in flight and a scan is due: no second
\* scan starts.  A restart during a scan does the same.
C28_Witness ==
    /\ cron.event.op \in {"timer", "startDiscoveryCron"}
    /\ cron.event.inFlight = 1
    /\ cron.event.due
    /\ Len(cron.scans) = 1

(***************************************************************************)
(* C27: when the configuration supplies routing rules, applySmartRouting   *)
(* promotes the candidates in the order of the configured fragments of the *)
(* classified task type, not of the default ones; when the configured      *)
(* rules have no entry for that task type it promotes them in the order of *)
(* the default fragments of that task type.                                *)
(***************************************************************************)
\* The call gets as far as the choice of the fragments, with configured rules.
RoutesByConfiguredRules ==
    /\ call.op = "applySmartRouting"
    /\ "prompt" \in DOMAIN call.params
    /\ call.params.prompt # ""
    /\ Len(call.params.candidates) > 1
    /\ "cfg" \in DOMAIN call.params
    /\ "smartRouting" \in DOMAIN call.params.cfg.agents.defaults
    /\ "rules" \in DOMAIN call.params.cfg.agents.defaults.smartRouting
    /\ TaskTypeOf[call.params.prompt] # "general"

C27_ConfiguredRulesReplaceDefaults ==
    RoutesByConfiguredRules =>
        \A rules \in {call.params.cfg.agents.defaults.smartRouting.rules},
           taskType \in {TaskTypeOf[call.params.prompt]} :
            call.result = ByAffinity(call.params.candidates,
                                     IF taskType \in DOMAIN rules THEN rules[taskType]
                                     ELSE DEFAULT_ROUTING_RULES[taskType], 0)

\* Configured fragments for the task type that order the candidates unlike
\* the default fragments and unlike the input.
C27_Witness ==
    /\ RoutesByConfiguredRules
    /\ TaskTypeOf[call.params.prompt]
          \in DOMAIN call.params.cfg.agents.defaults.smartRouting.rules
    /\ call.result # call.params.candidates
    /\ call.result # ByAffinity(call.params.candidates,
                                DEFAULT_ROUTING_RULES[TaskTypeOf[call.params.prompt]], 0)

(***************************************************************************)
(* C30: the affinity index of a candidate is the lowest index i such that  *)
(* fragment i, in lower case, occurs in the key provider/model, in lower   *)
(* case: containment, not equality, whatever the case of either side.  A   *)
(* candidate that contains several fragments gets the lowest of their      *)
(* indexes, one that contains none is unmatched (-1).                      *)
(***************************************************************************)
\* frag occurs in text at some offset, letter by letter, case set aside.
ContainsIgnoringCase(text, frag) ==
    \E offset \in 0..(Len(text) - Len(frag)) :
        \A k \in 1..Len(frag) :
            toLowerChar(CharAt(text, offset + k)) = toLowerChar(CharAt(frag, k))

\* Fragment i (from 0) of the call occurs in the key of its candidate.
FragmentOccurs(i) ==
    ContainsIgnoringCase(call.candidate.provider \o "/" \o call.candidate.model,
                         call.fragments[i + 1])

C30_LowestContainedFragment ==
    call.op = "matchAffinity" =>
        /\ call.result \in -1..(Len(call.fragments) - 1)
        /\ call.result = -1 <=> \A i \in 0..(Len(call.fragments) - 1) : ~FragmentOccurs(i)
        /\ call.result >= 0 =>
              /\ FragmentOccurs(call.result)
              /\ \A i \in 0..(call.result - 1) : ~FragmentOccurs(i)

\* A key with capital letters that contains two fragments, neither of them
\* the first of the list and neither equal to the key.
C30_Witness ==
    /\ call.op = "matchAffinity"
    /\ call.result > 0
    /\ \E i \in (call.result + 1)..(Len(call.fragments) - 1) : FragmentOccurs(i)
    /\ toLowerCase(call.candidate.model) # call.candidate.model

(***************************************************************************)
(* Recording before detection (GuardSpec).                                 *)
(***************************************************************************)
\* C29: checkStreamingChunk records the chunk before it runs the loop
\* detection: in every step in which it raises, the chunk list of the state
\* it leaves is the list it found with the offending chunk appended,
\* totalChars has grown by the length of that chunk, and firstChunkAt is set
\* if the chunk is not empty.
C29_RecordedBeforeDetection ==
    [][(/\ last'.op = "checkStreamingChunk"
        /\ now' = now
        /\ last'.outcome.raised) =>
            /\ state'.chunks = Append(state.chunks, last'.chunk)
            /\ state'.totalChars = state.totalChars + Len(last'.chunk)
            /\ Len(last'.chunk) > 0 => state'.firstChunkAt # null
            /\ state'.startedAt = state.startedAt]_vars

\* A call has raised on a state whose first chunk was empty: the time of the
\* first chunk was recorded by a later one.
C29_Witness ==
    /\ last.op = "checkStreamingChunk"
    /\ last.outcome.raised
    /\ state.chunks[1] = ""
    /\ state.chunks[Len(state.chunks)] = last.chunk
    /\ state.firstChunkAt # null
    /\ state.firstChunkAt > state.startedAt

(***************************************************************************)
(* The time of the first chunk (GuardSpec).                                *)
(***************************************************************************)
\* C31: in a state made by createQualityGuardState and changed by the
\* supervisor alone, firstChunkAt is null until an enabled checkStreamingChunk
\* takes the first chunk that is not empty, that call sets it to the time of
\* the call, and no later operation changes or clears it; empty chunks leave
\* it null.
C31_FirstChunkAtSetOnce ==
    [][/\ state.firstChunkAt # null => state'.firstChunkAt = state.firstChunkAt
       /\ (state.firstChunkAt = null /\ state'.firstChunkAt # null) =>
              /\ last'.op = "checkStreamingChunk"
              /\ EnabledIn(last'.config)
              /\ Len(last'.chunk) > 0
              /\ state'.firstChunkAt = now
       /\ state'.firstChunkAt = null =>
              \A i \in DOMAIN state'.chunks : state'.chunks[i] = ""]_vars

\* Behind an empty chunk, a chunk that set the time and a later chunk, taken
\* when the clock had moved on, that left it alone.
C31_Witness ==
    /\ last.op = "checkStreamingChunk"
    /\ Len(last.chunk) > 0
    /\ Len(state.chunks) = 3
    /\ state.chunks[1] = ""
    /\ state.chunks[2] # ""
    /\ state.firstChunkAt # null
    /\ state.firstChunkAt < now

(***************************************************************************)
(* What the checks leave alone (GuardSpec).                                *)
(***************************************************************************)
\* C32: checkForStall and checkFinalResponse never modify the state, whether
\* they raise or not, and checkStreamingChunk of a disabled guard leaves
\* chunks, totalChars, firstChunkAt and startedAt as they are: it does not
\* record the chunk.
C32_ChecksLeaveStateAlone ==
    [][/\ (last'.op \in {"checkForStall", "checkFinalResponse"} /\ now' = now)
              => state' = state
       /\ (/\ last'.op = "checkStreamingChunk"
           /\ now' = now
           /\ ~EnabledIn(last'.config)) =>
              /\ state'.chunks = state.chunks
              /\ state'.totalChars = state.totalChars
              /\ state'.firstChunkAt = state.firstChunkAt
              /\ state'.startedAt = state.startedAt]_vars

\* A disabled guard was handed a chunk, not empty, when the state held
\* nothing: the state still holds nothing and has no time of a first chunk.
C32_Witness ==
    /\ last.op = "checkStreamingChunk"
    /\ ~EnabledIn(last.config)
    /\ Len(last.chunk) > 0
    /\ state.chunks = <<>>
    /\ state.totalChars = 0
    /\ state.firstChunkAt = null

(***************************************************************************)
(* Fewer chunks than the threshold (GuardSpec).                            *)
(***************************************************************************)
\* C33: while the state holds fewer than loopThreshold recorded chunks, the
\* current one included, checkStreamingChunk never raises, whatever the
\* length and the content of the chunk: neither the check for exact repeats
\* nor the check for heavy repetition is applied.
C33_BelowThresholdNeverRaises ==
    (/\ last.op = "checkStreamingChunk"
     /\ Len(state.chunks) < LoopThreshold(last.config)) =>
        ~last.outcome.raised

\* Two long chunks under a threshold of three: more than 500 characters of
\* heavily repeated text, and the call has returned.
C33_Witness ==
    /\ IngestedLong
    /\ Len(state.chunks) = 2
    /\ LoopThreshold(last.config) = 3
    /\ state.totalChars > 500
    /\ HeavilyRepeated(join(state.chunks))
    /\ ~last.outcome.raised

(***************************************************************************)
(* The wrapper that loads the usage summary (RouterSpec).                  *)
(***************************************************************************)
\* C34: applyBudgetSteering never propagates a failure to load the usage
\* summary: when the load fails it returns the input candidates unchanged,
\* in their order and none dropped, and when the load succeeds it returns
\* exactly what filterByBudget returns for the loaded summary.
C34_LoadFailureIsNotPropagated ==
    call.op = "applyBudgetSteering" =>
        /\ ~call.result.raised
        /\ call.loaded.rejected => call.result.candidates = call.params.candidates
        /\ ~call.loaded.rejected =>
              call.result.candidates =
                  filterByBudget([candidates |-> call.params.candidates,
                                  usageSummary |-> call.loaded.usageSummary])

\* The load has failed for a list that filterByBudget reorders under a
\* summary the load can come to.
C34_Witness ==
    /\ call.op = "applyBudgetSteering"
    /\ call.loaded.rejected
    /\ ~call.result.raised
    /\ call.result.candidates = call.params.candidates
    /\ \E loaded \in Loads \ {Rejected} :
          filterByBudget([candidates |-> call.params.candidates,
                          usageSummary |-> loaded.usageSummary]) # call.params.candidates

(***************************************************************************)
(* Scans only when due (CronSpec).                                         *)
(***************************************************************************)
\* The persisted lastScanAt the last call of runDiscoveryCycle found was 0, or
\* lay the interval of the call (24 hours without intervalHours) or more back.
FoundScanDue ==
    \/ cron.event.lastScanAt = 0
    \/ cron.clock - cron.event.lastScanAt >=
          (IF "intervalHours" \in DOMAIN cron.event.options
           THEN cron.event.options.intervalHours ELSE 24) * 3600000

\* C35: runDiscoveryCycle starts a scan only when a scan is due, that is when
\* the persisted lastScanAt is 0 or at least intervalHours (24 by default)
\* have passed since lastScanAt; when no scan is due it returns without a
\* scan and leaves the persisted discovery state and the running flag as
\* they were.
C35_ScansOnlyWhenDue ==
    cron.event.op \in CycleCalls =>
        /\ cron.event.scanned => FoundScanDue
        /\ ~FoundScanDue =>
              /\ ~cron.event.scanned
              /\ cron.lastScanAt = cron.event.lastScanAt
              /\ cron.isRunning = cron.event.busy
              /\ Len(cron.scans) = cron.event.inFlight

\* A direct call with the default interval, half a day after a scan was
\* persisted and with no scan running, has started none.
C35_Witness ==
    /\ cron.event.op = "runDiscoveryCycle"
    /\ "intervalHours" \notin DOMAIN cron.event.options
    /\ ~cron.event.busy
    /\ cron.event.lastScanAt # 0
    /\ cron.clock - cron.event.lastScanAt = 12 * HourMs
    /\ ~cron.event.scanned
    /\ ~cron.isRunning

(***************************************************************************)
(* The running flag is cleared (CronFairSpec).                             *)
(***************************************************************************)
\* A scan that has thrown was reported through onProgress("error", ...), has
\* left lastScanAt as it was and has cleared the running flag.
FailureHandled ==
    cron.event.op = "scanFailed" =>
        /\ cron.event.onProgress = "error"
        /\ cron.lastScanAt = cron.event.lastScanAt
        /\ ~cron.isRunning

\* A call of runDiscoveryCycle that finds no scan running and a scan due
\* starts one.
DueCycleScans ==
    (cron.event.op \in CycleCalls /\ ~cron.event.busy /\ FoundScanDue) => cron.event.scanned

C37_Idempotent ==
    call.op \in {"applySmartRoutingTwice", "filterByBudgetTwice"} =>
        call.result = call.once

\* The first application of applySmartRouting has reordered a list that holds
\* two different candidates of one rank, which it kept in their input order.
C37_Witness ==
    /\ call.op = "applySmartRoutingTwice"
    /\ call.once # call.params.candidates
    /\ call.result = call.once
    /\ \E i, j \in DOMAIN call.once :
          /\ i < j
          /\ call.once[i] # call.once[j]
          /\ matchAffinity(call.once[i], SortFragments(call.params))
                = matchAffinity(call.once[j], SortFragments(call.params))

(***************************************************************************)
(* The last skip (AuditSpec).                                              *)
(***************************************************************************)
\* The call was marked as an intentional skip.
MarkedIntentional(c) == "intentional" \in DOMAIN c.opts /\ c.opts.intentional = TRUE

\* C38: the last markSkipped call wins: skipReason and skippedIntentionally
\* are those of the most recent markSkipped call alone, so a later markSkipped
\* without intentional: true clears an earlier intentional skip, and finalize
\* then warns, with the reason of that last skip, if a reply was expected and
\* not delivered.
C38_LastSkipWins ==
    /\ \A total \in {Len(audit.calls)} :
          IF CallsOf("markSkipped", total) = {}
          THEN audit.handler.skipReason = <<>> /\ ~audit.handler.skippedIntentionally
          ELSE \A c \in {LastOf("markSkipped", total)} :
                  /\ audit.handler.skipReason = <<c.reason>>
                  /\ audit.handler.skippedIntentionally = MarkedIntentional(c)
    /\ \A n \in DOMAIN audit.calls :
          (/\ audit.calls[n].op = "finalize"
           /\ CallsOf("markSkipped", n - 1) # {}) =>
              \A c \in {LastOf("markSkipped", n - 1)} :
                  /\ MarkedIntentional(c) => audit.calls[n].logged = <<>>
                  /\ (/\ ~MarkedIntentional(c)
                      /\ CallsOf("markReceived", n - 1) # {}
                      /\ classifyReplyIntent(LastOf("markReceived", n - 1).text)
                            \in {"expects_reply", "ambiguous"}
                      /\ CallsOf("markReplyDelivered", n - 1) = {}) =>
                          /\ Len(audit.calls[n].logged) = 1
                          /\ audit.calls[n].logged[1].skip = c.reason

\* A skip marked intentional, then a skip for another reason that is not, and
\* finalize has warned with the reason of the second.
C38_Witness ==
    /\ Len(audit.calls) = 4
    /\ audit.calls[1].op = "markReceived"
    /\ audit.calls[2].op = "markSkipped" /\ MarkedIntentional(audit.calls[2])
    /\ audit.calls[3].op = "markSkipped" /\ ~MarkedIntentional(audit.calls[3])
    /\ audit.calls[3].reason # audit.calls[2].reason
    /\ audit.calls[4].op = "finalize"
    /\ Len(audit.calls[4].logged) = 1
    /\ audit.calls[4].logged[1].skip = audit.calls[3].reason

(***************************************************************************)
(* One usage id for every spelling of a provider (RouterSpec).             *)
(***************************************************************************)
\* The usage id each provider name of the model stands for, "" for none.
UsageIdOf ==
    ("openai-codex" :> "openai-codex") @@
    ("openai" :> "openai-codex") @@
    (" OpenAI " :> "openai-codex") @@
    ("google-antigravity" :> "google-antigravity") @@
    ("google" :> "google-antigravity") @@
    ("anthropic" :> "anthropic") @@
    ("Anthropic\n" :> "anthropic") @@
    ("OpenRouter" :> "") @@
    ("ollama" :> "")

\* Two budget statuses report the same usage, exhaustion and reset time.
SameBudget(a, b) ==
    /\ a.usedPercent = b.usedPercent
    /\ a.isExhausted = b.isExhausted
    /\ "resetAt" \in DOMAIN a <=> "resetAt" \in DOMAIN b
    /\ "resetAt" \in DOMAIN a => a.resetAt = b.resetAt

\* C39: the budget lookup canonicalises the provider name without regard to
\* case and surrounding whitespace and maps aliases onto one usage id (openai
\* and openai-codex onto openai-codex, google and google-antigravity onto
\* google-antigravity): providers that share a usage id get the same usage,
\* exhaustion and reset time (the status repeats the name as given) and land
\* in the same bucket, and of several snapshot entries of one usage id the
\* first is the one used.
C39_OneUsageIdPerProvider ==
    call.op = "getProviderBudget" =>
        \A id \in {UsageIdOf[call.provider]} :
            /\ mapToUsageProviderId(call.provider) = id
            /\ id # "" =>
                  \A other \in {q \in DOMAIN UsageIdOf : UsageIdOf[q] = id} :
                      /\ SameBudget(call.result,
                                    getProviderBudget(other, call.usageSummary))
                      /\ bucketOf([provider |-> other], call.usageSummary)
                            = bucketOf([provider |-> call.provider], call.usageSummary)
            /\ (id # "" /\ call.usageSummary # Null) =>
                  \A i \in DOMAIN call.usageSummary.providers :
                      (/\ call.usageSummary.providers[i].provider = id
                       /\ \A j \in 1..(i - 1) : call.usageSummary.providers[j].provider # id) =>
                          \A windows \in {call.usageSummary.providers[i].windows} :
                              call.result.usedPercent =
                                  IF Len(windows) = 0 THEN 0
                                  ELSE MaxOf({windows[k].usedPercent : k \in DOMAIN windows})

\* An alias in capitals between blanks, looked up in a snapshot whose first
\* entry for its usage id is fresh and whose later entry is exhausted: fresh.
C39_Witness ==
    /\ call.op = "getProviderBudget"
    /\ call.provider = " OpenAI "
    /\ call.usageSummary # Null
    /\ Len(call.usageSummary.providers) = 3
    /\ call.usageSummary.providers[1].provider = "openai-codex"
    /\ call.usageSummary.providers[3].provider = "openai-codex"
    /\ call.usageSummary.providers[1].windows = <<Window(Pct(30), 1000)>>
    /\ call.usageSummary.providers[3].windows = <<Window(Pct(95), 1000)>>
    /\ call.result.usedPercent = Pct(30)
    /\ ~call.result.isExhausted

(***************************************************************************)
(* One interval timer (CronSpec).                                          *)
(***************************************************************************)
\* C40: after any sequence of startDiscoveryCron and stopDiscoveryCron calls
\* at most one interval timer is active, startDiscoveryCron having cleared
\* the timer before it; after stopDiscoveryCron none is active, so that a
\* timer starts a cycle only while the cron is started: the timer that fires
\* is the one cronTimer holds.
C40_AtMostOneTimer ==
    /\ Cardinality(cron.timers) <= 1
    /\ cron.cronTimer = null <=> cron.timers = {}
    /\ \A timer \in cron.timers : timer.handle = cron.cronTimer
    /\ cron.event.op = "stopDiscoveryCron" => cron.timers = {}
    /\ cron.event.op = "timer" => cron.event.handle = cron.cronTimer

\* The cron was started again, with the default interval, while a timer was
\* active: the one timer there is now is the new one.
C40_Witness ==
    /\ cron.event.op = "startDiscoveryCron"
    /\ cron.event.timers = 1
    /\ cron.event.options = <<>>
    /\ cron.passes > 0
    /\ Cardinality(cron.timers) = 1
    /\ \A timer \in cron.timers :
          /\ timer.options = <<>>
          /\ timer.due = cron.clock + 24 * HourMs

====
